---- MODULE Spec2Model ----
(***************************************************************************)
(* A model of the bundle orchestration core of tauri-revanced:             *)
(*   - the process runner      (bundler/bundle/common.rs, CommandExt)      *)
(*   - the package types       (bundler/bundle/settings.rs, PackageType)   *)
(*   - the settings accessors  (bundler/bundle/settings.rs, Settings)      *)
(*   - the updater archiver    (bundler/bundle/updater_bundle.rs, 2 copies)*)
(*   - the bundle command      (cli/src/commands/bundle/mod.rs, run)       *)
(*   - the settings builder    (bundler/bundle/settings.rs, SettingsBuilder)*)
(*   - the short names         (bundler/bundle/settings.rs, PackageType)   *)
(*   - the directory copy      (bundler/bundle/common.rs, copy_dir)        *)
(*   - the file copy           (bundler/bundle/common.rs, copy_file)       *)
(*   - the archive writers     (updater_bundle.rs, create_tar, create_zip) *)
(*   - the configuration cache (helpers/config.rs, get, reload)            *)
(* Each part is a state machine of its own over the shared variables; the  *)
(* variable `mode` says which part a behaviour exercises, and every part   *)
(* has its own specification (SpecOutput, SpecOrder, SpecUpdater, SpecRun, *)
(* SpecSettings, SpecBuild, SpecNames, SpecFs, SpecCopyFile, SpecTar,      *)
(* SpecZip, SpecConfig).  Spec is their union.                             *)
(***************************************************************************)
EXTENDS Integers, Sequences, FiniteSets, TLC

VARIABLES
    mode,       \* which operation this behaviour exercises
    \* ---- CommandExt::output_ok (common.rs:142-203)
    program,    \* self.get_program()
    child,      \* the spawned child: "none" | "running" | "exited"
    exit_code,  \* the code the child exited with (None while it runs)
    written,    \* history: per stream, the lines the child wrote so far
    pipe,       \* per stream, the lines in the OS pipe, not yet read
    reader,     \* per stream, the position of its reader thread
    mutex,      \* per stream, who holds Mutex<Vec<u8>>: "free"|"reader"|"parent"
    lines,      \* per stream, the content of the shared Vec<u8> (stdout_lines, stderr_lines)
    ppc,        \* position of the thread that called output_ok
    status,     \* the ExitStatus child.wait() returned (None before)
    output,     \* the Output value built at common.rs:190-194
    out_result, \* what output_ok returned
    \* ---- building package types in priority order (settings.rs:71-85)
    requested,  \* the package types asked for, in the order they were given
    order,      \* the package types still to build, sorted by priority()
    built,      \* the package types built so far, in build order
    opc,        \* "sort" | "build" | "done"
    \* ---- Settings (settings.rs:450-769)
    host_os,    \* std::env::consts::OS of the build
    settings,   \* the Settings value
    pt_result,  \* what Settings::package_types() returned
    \* ---- updater_bundle::bundle_project (two copies: cli/ and clitemp/)
    u_impl,     \* which copy runs: "cli" | "clitemp"
    u_host,     \* the target_os the copy was compiled for (cfg!(target_os))
    bundles,    \* the Bundle list handed in: what earlier bundlers produced
    u_pc,       \* "locate" | "archive" | "done"
    source_path,\* the bundle path that was located
    u_result,   \* what bundle_project returned
    u_written,  \* history: the paths bundle_project created or wrote to
    \* ---- the bundle command, commands::bundle::run (cli/src/commands/bundle/mod.rs)
    r_host,     \* the target_os the command was compiled for (cfg!(target_os))
    args_target,\* args.target: the --target values
    bundle_types,\* the bundle types named on the command line
    site,       \* the index in Sites of the next bundle site of run
    invoked,    \* history: the bundlers called so far, each with its outcome
    bundle_paths,\* the paths pushed so far, each named by its bundler
    warned,     \* history: the unsupported(platform, bundle_type) calls so far
    run_result, \* what run returned
    \* ---- SettingsBuilder and the Settings accessors (settings.rs:380-524, 614-624)
    builder,    \* the SettingsBuilder value
    b_host,     \* the host the builder runs on
    b_result,   \* what SettingsBuilder::build returned
    sett,       \* the Settings value the caller holds after build
    call,       \* the last call on the Settings value and what it gave
    \* ---- PackageType::from_short_name, PackageType::short_name (settings.rs:42-64)
    n_type,     \* a PackageType value
    n_name,     \* a string given as a short name
    n_shown,    \* what n_type.short_name() returned
    n_parsed,   \* what PackageType::from_short_name(n_name) returned
    n_reparsed, \* what from_short_name returned for n_shown
    n_reshown,  \* what short_name returned for the type in n_parsed
    \* ---- common::copy_dir (common.rs:86-123)
    fs,         \* the filesystem: the node at every path that has one
    fs0,        \* history: the filesystem when copy_dir was called
    c_pc,       \* position in copy_dir: "check" | "parent" | "walk" | "done"
    todo,       \* the entries walkdir::WalkDir has still to yield, next first
    c_result,   \* what copy_dir returned
    \* ---- create_tar, create_zip (cli/src/bundler/bundle/updater_bundle.rs:107-198)
    a_host,     \* the target_os the archiver was compiled for (cfg!(target_os))
    a_mode,     \* the unix permission bits of the source file
    archive,    \* the entries handed to the archive writer so far
    \* ---- helpers::config::get, reload (clitemp/src/helpers/config.rs:63-167)
    cache,      \* CONFIG_HANDLE: the Option<ConfigMetadata> behind the mutex
    disk,       \* the configuration files as they are on disk now
    cfg_call,   \* the last call of get or reload: arguments, outcome, file reads
    first_load, \* history: the target of the first load that succeeded
    cfg_calls,  \* the number of calls made so far
    exited      \* whether the process has ended through exit(1)

procVars == <<program, child, exit_code, written, pipe, reader, mutex, lines,
              ppc, status, output, out_result>>

orderVars == <<requested, order, built, opc>>
setVars == <<host_os, settings, pt_result>>

updVars == <<u_impl, u_host, bundles, u_pc, source_path, u_result, u_written>>

runVars == <<r_host, args_target, bundle_types, site, invoked, bundle_paths,
             warned, run_result>>

buildVars == <<builder, b_host, b_result, sett, call>>

nameVars == <<n_type, n_name, n_shown, n_parsed, n_reparsed, n_reshown>>

fsVars == <<fs, fs0, c_pc, todo, c_result>>

arVars == <<a_host, a_mode, archive>>

cfgVars == <<cache, disk, cfg_call, first_load, cfg_calls, exited>>

notProc == <<orderVars, setVars, updVars, runVars, buildVars, nameVars,
              fsVars, arVars, cfgVars>>
notOrder == <<procVars, setVars, updVars, runVars, buildVars, nameVars,
               fsVars, arVars, cfgVars>>
notSet == <<procVars, orderVars, updVars, runVars, buildVars, nameVars,
             fsVars, arVars, cfgVars>>
notUpd == <<procVars, orderVars, setVars, runVars, buildVars, nameVars,
             fsVars, arVars, cfgVars>>
notRun == <<procVars, orderVars, setVars, updVars, buildVars, nameVars,
             fsVars, arVars, cfgVars>>

notBuild == <<procVars, orderVars, setVars, updVars, runVars, nameVars,
               fsVars, arVars, cfgVars>>

notName == <<procVars, orderVars, setVars, updVars, runVars, buildVars,
              fsVars, arVars, cfgVars>>

notFs == <<procVars, orderVars, setVars, updVars, runVars, buildVars,
            nameVars, arVars, cfgVars>>

notArchive == <<procVars, orderVars, setVars, updVars, runVars, buildVars,
                 nameVars, fsVars, cfgVars>>

\* everything but the filesystem and the archive
notTar == <<procVars, orderVars, setVars, updVars, runVars, buildVars,
             nameVars, cfgVars>>

notConfig == <<procVars, orderVars, setVars, updVars, runVars, buildVars,
                nameVars, fsVars, arVars>>

vars == <<mode, procVars, orderVars, setVars, updVars, runVars, buildVars,
           nameVars, fsVars, arVars, cfgVars>>

----------------------------------------------------------------------------
(* Bounds of the model                                                     *)

\* the child writes at most MaxWrites lines in all
MaxWrites == 3
\* an OS pipe holds at most PipeCap unread lines; a write to a full pipe blocks
PipeCap == 1
\* the child exits with a code in 0..MaxExit
MaxExit == 1
\* the caller names at most MaxRequested package types explicitly
MaxRequested == 2
\* the Updater is handed at most MaxBundles earlier bundles
MaxBundles == 2
\* a bundle holds at most MaxPaths paths
MaxPaths == 1
\* the command line gives at most MaxTargets --target values
MaxTargets == 2
\* the command line names at most MaxTypes bundle types
MaxTypes == 2
\* the caller hands at most MaxBinaries binaries to the builder
MaxBinaries == 2
\* the directory tree handed to copy_dir has at most MaxEntries entries below
\* its root
MaxEntries == 3

----------------------------------------------------------------------------
(* The values the parts that a behaviour does not exercise stay at        *)

None == [some |-> FALSE]
Some(v) == [some |-> TRUE, value |-> v]
NoResult == [kind |-> "none"]
Ok(v) == [kind |-> "Ok", value |-> v]

IdleOutput ==
    /\ program = "" /\ child = "none" /\ exit_code = None
    /\ written = <<>> /\ pipe = <<>> /\ reader = <<>> /\ mutex = <<>> /\ lines = <<>>
    /\ ppc = "idle" /\ status = None /\ output = <<>> /\ out_result = NoResult

IdleOrder ==
    /\ requested = <<>> /\ order = <<>> /\ built = <<>> /\ opc = "idle"

IdleSettings ==
    /\ host_os = "" /\ settings = <<>> /\ pt_result = NoResult

IdleUpdater ==
    /\ u_impl = "" /\ u_host = "" /\ bundles = <<>> /\ u_pc = "idle"
    /\ source_path = None /\ u_result = NoResult /\ u_written = {}

IdleRun ==
    /\ r_host = "" /\ args_target = <<>> /\ bundle_types = <<>> /\ site = 0
    /\ invoked = <<>> /\ bundle_paths = <<>> /\ warned = <<>> /\ run_result = NoResult
IdleBuild ==
    /\ builder = <<>> /\ b_host = "" /\ b_result = NoResult /\ sett = <<>>
    /\ call = NoResult
IdleNames ==
    /\ n_type = "" /\ n_name = "" /\ n_shown = None /\ n_parsed = None
    /\ n_reparsed = None /\ n_reshown = None
IdleFs ==
    /\ fs = <<>> /\ fs0 = <<>> /\ c_pc = "idle" /\ todo = <<>> /\ c_result = NoResult
IdleArchive ==
    /\ a_host = "" /\ a_mode = 0 /\ archive = <<>>
IdleConfig ==
    /\ cache = None /\ disk = <<>> /\ cfg_call = NoResult /\ first_load = None
    /\ cfg_calls = 0 /\ exited = FALSE

----------------------------------------------------------------------------
(* CommandExt::output_ok                                                   *)

Streams == {"stdout", "stderr"}
Programs == {"hdiutil", "appimagetool"}
ExitCodes == 0 .. MaxExit

\* A line the child writes: `id` stands for its bytes, `utf8` says whether the
\* bytes are valid UTF-8 (BufRead::read_line fails on a line that is not).
Line(id, utf8) == [id |-> id, utf8 |-> utf8]

RECURSIVE Bytes(_)
\* the bytes of a sequence of lines, in order
Bytes(ls) == IF ls = <<>> THEN <<>> ELSE <<Head(ls).id>> \o Bytes(Tail(ls))

OkOutput(o) == [kind |-> "Ok", output |-> o]
\* Error::Generic(format!("failed to run {program}"))
ErrFailedToRun(p) == [kind |-> "Err", error |-> "Generic", message |-> <<"failed to run ", p>>]
\* the io::Error of spawn() or wait(), passed on by `?`
ErrIo(op) == [kind |-> "Err", error |-> "Io", message |-> <<op>>]

\* ExitStatus::success(), of the status wait() gave
successAlways(st) == TRUE
success(st) == st.value = 0

InitOutput ==
    /\ mode = "output_ok"
    /\ program \in Programs
    /\ child = "none"
    /\ exit_code = None
    /\ written = [s \in Streams |-> <<>>]
    /\ pipe = [s \in Streams |-> <<>>]
    /\ reader = [s \in Streams |-> "unspawned"]
    /\ mutex = [s \in Streams |-> "free"]
    /\ lines = [s \in Streams |-> <<>>]
    /\ ppc = "spawn"
    /\ status = None
    /\ output = [status |-> None, stdout |-> <<>>, stderr |-> <<>>]
    /\ out_result = NoResult
    /\ IdleOrder /\ IdleSettings /\ IdleUpdater /\ IdleRun /\ IdleBuild
    /\ IdleNames /\ IdleFs /\ IdleArchive /\ IdleConfig

NumWritten == Len(written["stdout"]) + Len(written["stderr"])

\* common.rs:149  let mut child = self.spawn()?;
SpawnChild ==
    /\ mode = "output_ok" /\ ppc = "spawn"
    /\ child' = "running"
    /\ ppc' = "spawn_stdout"
    /\ UNCHANGED <<mode, notProc, program, exit_code, written, pipe, reader, mutex, lines,
                   status, output, out_result>>

\* common.rs:149  spawn() fails and `?` returns the io error
SpawnFails ==
    /\ mode = "output_ok" /\ ppc = "spawn"
    /\ ppc' = "done"
    /\ out_result' = ErrIo("spawn")
    /\ UNCHANGED <<mode, notProc, program, child, exit_code, written, pipe, reader, mutex,
                   lines, status, output>>

\* Which reader thread the parent starts at each position, and where it goes next.
\* common.rs:151-168 starts the stdout reader, common.rs:170-187 the stderr reader;
\* thread::spawn returns at once, the parent never joins a reader.
SpawnSite == [spawn_stdout |-> [stream |-> "stdout", next |-> "spawn_stderr"],
              spawn_stderr |-> [stream |-> "stderr", next |-> "wait"]]

\* what the parent waits for before it starts the reader of stream s
StartsAfterOtherEof(s) == s = "stderr" => reader["stdout"] = "done"
CanStartReader(s) == TRUE

\* common.rs:151-154, 170-173  std::thread::spawn(move || ...)
SpawnReader(s) ==
    /\ mode = "output_ok" /\ ppc \in DOMAIN SpawnSite
    /\ SpawnSite[ppc].stream = s
    /\ CanStartReader(s)
    /\ reader' = [reader EXCEPT ![s] = "lock"]
    /\ ppc' = SpawnSite[ppc].next
    /\ UNCHANGED <<mode, notProc, program, child, exit_code, written, pipe, mutex, lines,
                   status, output, out_result>>

\* The child writes one more line to one of its pipes; the write blocks while
\* the pipe is full.
ChildWrite(s, utf8) ==
    /\ mode = "output_ok" /\ child = "running"
    /\ NumWritten < MaxWrites
    /\ Len(pipe[s]) < PipeCap
    /\ LET l == Line(NumWritten + 1, utf8) IN
         /\ written' = [written EXCEPT ![s] = Append(@, l)]
         /\ pipe' = [pipe EXCEPT ![s] = Append(@, l)]
    /\ UNCHANGED <<mode, notProc, program, child, exit_code, reader, mutex, lines, ppc,
                   status, output, out_result>>

\* The child exits; the write ends of both pipes are closed.
ChildExit(code) ==
    /\ mode = "output_ok" /\ child = "running"
    /\ child' = "exited"
    /\ exit_code' = Some(code)
    /\ UNCHANGED <<mode, notProc, program, written, pipe, reader, mutex, lines, ppc,
                   status, output, out_result>>

\* common.rs:156, 175  let mut lines = stdout_lines_.lock().unwrap();
\* The guard lives until the closure returns.
ReaderLock(s) ==
    /\ mode = "output_ok" /\ reader[s] = "lock"
    /\ mutex[s] = "free"
    /\ mutex' = [mutex EXCEPT ![s] = "reader"]
    /\ reader' = [reader EXCEPT ![s] = "clear"]
    /\ UNCHANGED <<mode, notProc, program, child, exit_code, written, pipe, lines, ppc,
                   status, output, out_result>>

\* common.rs:158, 177  line.clear();
ReaderClear(s) ==
    /\ mode = "output_ok" /\ reader[s] = "clear"
    /\ reader' = [reader EXCEPT ![s] = "read"]
    /\ UNCHANGED <<mode, notProc, program, child, exit_code, written, pipe, mutex, lines,
                   ppc, status, output, out_result>>

\* what the Ok(_) arm appends to the shared buffer for the line just read
Extend(buf, l) == Append(buf, l.id)

\* common.rs:161-164, 180-183  Ok(_) => lines.extend(line.as_bytes().to_vec())
ReadLine(s) ==
    /\ mode = "output_ok" /\ reader[s] = "read"
    /\ pipe[s] # <<>> /\ Head(pipe[s]).utf8
    /\ lines' = [lines EXCEPT ![s] = Extend(@, Head(pipe[s]))]
    /\ pipe' = [pipe EXCEPT ![s] = Tail(@)]
    /\ reader' = [reader EXCEPT ![s] = "clear"]
    /\ UNCHANGED <<mode, notProc, program, child, exit_code, written, mutex, ppc, status,
                   output, out_result>>

\* common.rs:165, 184  Err(_) => ()  for a line that is not UTF-8: read_line has
\* consumed the line from the pipe and leaves `line` empty; the loop goes on.
ReadInvalidUtf8(s) ==
    /\ mode = "output_ok" /\ reader[s] = "read"
    /\ pipe[s] # <<>> /\ ~Head(pipe[s]).utf8
    /\ pipe' = [pipe EXCEPT ![s] = Tail(@)]
    /\ reader' = [reader EXCEPT ![s] = "clear"]
    /\ UNCHANGED <<mode, notProc, program, child, exit_code, written, mutex, lines, ppc,
                   status, output, out_result>>

\* common.rs:165, 184  Err(_) => ()  for an I/O error of the read itself: nothing
\* is consumed and the loop goes on.
ReadIoError(s) ==
    /\ mode = "output_ok" /\ reader[s] = "read"
    /\ reader' = [reader EXCEPT ![s] = "clear"]
    /\ UNCHANGED <<mode, notProc, program, child, exit_code, written, pipe, mutex, lines,
                   ppc, status, output, out_result>>

\* common.rs:160, 179  Ok(0) => break: end-of-file, that is the pipe is empty and
\* its write end is closed.  The closure returns and drops the guard.
ReadEof(s) ==
    /\ mode = "output_ok" /\ reader[s] = "read"
    /\ pipe[s] = <<>> /\ child = "exited"
    /\ reader' = [reader EXCEPT ![s] = "done"]
    /\ mutex' = [mutex EXCEPT ![s] = "free"]
    /\ UNCHANGED <<mode, notProc, program, child, exit_code, written, pipe, lines, ppc,
                   status, output, out_result>>

\* one step of the reader thread of stream s
Reader(s) ==
    \/ ReaderLock(s) \/ ReaderClear(s)
    \/ ReadLine(s) \/ ReadInvalidUtf8(s) \/ ReadIoError(s) \/ ReadEof(s)

\* common.rs:189  let status = child.wait()?;
Wait ==
    /\ mode = "output_ok" /\ ppc = "wait"
    /\ child = "exited"
    /\ status' = exit_code
    /\ output' = [output EXCEPT !.status = exit_code]
    /\ ppc' = "take_stdout"
    /\ UNCHANGED <<mode, notProc, program, child, exit_code, written, pipe, reader, mutex,
                   lines, out_result>>

\* common.rs:189  wait() fails and `?` returns the io error
WaitFails ==
    /\ mode = "output_ok" /\ ppc = "wait"
    /\ child = "exited"
    /\ ppc' = "done"
    /\ out_result' = ErrIo("wait")
    /\ UNCHANGED <<mode, notProc, program, child, exit_code, written, pipe, reader, mutex,
                   lines, status, output>>

\* common.rs:192  stdout: std::mem::take(&mut *stdout_lines.lock().unwrap())
\* The guard is a temporary of the `let output = ...;` statement.
TakeStdout ==
    /\ mode = "output_ok" /\ ppc = "take_stdout"
    /\ mutex["stdout"] = "free"
    /\ mutex' = [mutex EXCEPT !["stdout"] = "parent"]
    /\ output' = [output EXCEPT !.stdout = lines["stdout"]]
    /\ lines' = [lines EXCEPT !["stdout"] = <<>>]
    /\ ppc' = "take_stderr"
    /\ UNCHANGED <<mode, notProc, program, child, exit_code, written, pipe, reader, status,
                   out_result>>

\* common.rs:193-194  stderr: std::mem::take(&mut *stderr_lines.lock().unwrap()) };
\* At the end of the statement both guards are dropped.
TakeStderr ==
    /\ mode = "output_ok" /\ ppc = "take_stderr"
    /\ mutex["stderr"] = "free"
    /\ mutex' = [s \in Streams |-> "free"]
    /\ output' = [output EXCEPT !.stderr = lines["stderr"]]
    /\ lines' = [lines EXCEPT !["stderr"] = <<>>]
    /\ ppc' = "check"
    /\ UNCHANGED <<mode, notProc, program, child, exit_code, written, pipe, reader, status,
                   out_result>>

\* common.rs:196-202  if output.status.success() { Ok(output) } else { Err(...) }
Return ==
    /\ mode = "output_ok" /\ ppc = "check"
    /\ out_result' = IF success(output.status) THEN OkOutput(output)
                                               ELSE ErrFailedToRun(program)
    /\ ppc' = "done"
    /\ UNCHANGED <<mode, notProc, program, child, exit_code, written, pipe, reader, mutex,
                   lines, status, output>>

\* one step of the thread that called output_ok
Parent ==
    \/ SpawnChild \/ SpawnFails
    \/ \E s \in Streams : SpawnReader(s)
    \/ Wait \/ WaitFails
    \/ TakeStdout \/ TakeStderr
    \/ Return

\* one step of the child process
Child ==
    \/ \E s \in Streams, utf8 \in BOOLEAN : ChildWrite(s, utf8)
    \/ \E code \in ExitCodes : ChildExit(code)

NextOutput ==
    \/ SpawnChild
    \/ SpawnFails
    \/ \E s \in Streams : SpawnReader(s)
    \/ \E s \in Streams, utf8 \in BOOLEAN : ChildWrite(s, utf8)
    \/ \E code \in ExitCodes : ChildExit(code)
    \/ \E s \in Streams : ReaderLock(s)
    \/ \E s \in Streams : ReaderClear(s)
    \/ \E s \in Streams : ReadLine(s)
    \/ \E s \in Streams : ReadInvalidUtf8(s)
    \/ \E s \in Streams : ReadIoError(s)
    \/ \E s \in Streams : ReadEof(s)
    \/ Wait
    \/ WaitFails
    \/ TakeStdout
    \/ TakeStderr
    \/ Return

SpecOutput == InitOutput /\ [][NextOutput]_vars

\* The scheduler runs every thread that can take a step, and the child process
\* keeps running until it exits.
FairSpecOutput ==
    /\ InitOutput /\ [][NextOutput]_vars
    /\ WF_vars(Parent)
    /\ WF_vars(Child)
    /\ \A s \in Streams : WF_vars(Reader(s))

----------------------------------------------------------------------------
(* Claims about CommandExt::output_ok                                      *)

\* C1 (as claimed): whenever output_ok has returned Ok(output), output.stdout is
\* exactly the bytes the child wrote to its stdout and output.stderr exactly the
\* bytes it wrote to its stderr, whatever the interleaving of the three threads.
C1_NoByteLost ==
    (mode = "output_ok" /\ ppc = "done" /\ out_result.kind = "Ok") =>
        /\ out_result.output.stdout = Bytes(written["stdout"])
        /\ out_result.output.stderr = Bytes(written["stderr"])

\* C2: the two readers are started without waiting for each other and both run
\* while the child runs: the parent never waits at a place where it starts a
\* reader, and whenever the running child faces a full pipe, the reader of that
\* pipe is running its loop, or is about to (it waits for nothing but a free
\* mutex that nobody holds, or for the parent's next, unguarded, step).
C2_ReadersIndependent ==
    mode = "output_ok" =>
        /\ ppc \in DOMAIN SpawnSite => ENABLED SpawnReader(SpawnSite[ppc].stream)
        /\ \A s \in Streams :
             (child = "running" /\ Len(pipe[s]) = PipeCap) =>
                /\ reader[s] # "done"
                /\ reader[s] = "unspawned" => ppc \in DOMAIN SpawnSite
                /\ reader[s] = "lock" => mutex[s] = "free"

\* C2 witness: the child alternated between its pipes and now faces a full
\* stderr pipe while the stdout reader sits in a read of an empty stdout pipe;
\* the stderr reader is in its loop all the same.
C2_Witness ==
    /\ mode = "output_ok" /\ child = "running"
    /\ written["stdout"] # <<>> /\ written["stderr"] # <<>>
    /\ Len(pipe["stderr"]) = PipeCap
    /\ reader["stdout"] = "read" /\ pipe["stdout"] = <<>>
    /\ reader["stderr"] = "read"

\* C3 (as claimed): under fair scheduling of the parent, the child and the two
\* readers, and for every outcome of the reads, once the child has exited (and
\* so closed its pipes) output_ok eventually returns.
C3_EventuallyReturns ==
    (mode = "output_ok" /\ child = "exited") ~> (ppc = "done")

\* C4: output_ok returns Ok(output) exactly when the exit status that wait()
\* gave (the code the child exited with) is success; for every other exit status
\* it returns the failure whose message carries the program name.
C4_OkIffSuccess ==
    (mode = "output_ok" /\ ppc = "done") =>
        /\ status.some => status = exit_code
        /\ out_result.kind = "Ok" <=> (status.some /\ status.value = 0)
        /\ out_result.kind = "Ok" => out_result.output.status = Some(0)
        /\ (status.some /\ status.value # 0) =>
              /\ out_result.kind = "Err"
              /\ out_result.error = "Generic"
              /\ \E i \in DOMAIN out_result.message : out_result.message[i] = program

\* C4 witness: output_ok has returned for a child that exited with a non-zero code.
C4_Witness ==
    /\ mode = "output_ok" /\ ppc = "done"
    /\ status.some /\ status.value # 0
    /\ out_result.kind = "Err"

----------------------------------------------------------------------------
(* PackageType (settings.rs:12-98)                                         *)

PackageType == {"MacOsBundle", "IosBundle", "AppImage", "Dmg", "Updater"}

\* PackageType::priority with Dmg given the priority of the bundles it wraps
priorityDmgZero(t) ==
    CASE t = "MacOsBundle" -> 0
      [] t = "IosBundle" -> 0
      [] t = "AppImage" -> 0
      [] t = "Dmg" -> 0
      [] t = "Updater" -> 2

\* PackageType::priority with Updater given the priority of Dmg
priorityUpdaterOne(t) ==
    CASE t = "MacOsBundle" -> 0
      [] t = "IosBundle" -> 0
      [] t = "AppImage" -> 0
      [] t = "Dmg" -> 1
      [] t = "Updater" -> 1

\* PackageType::priority
priority(t) ==
    CASE t = "MacOsBundle" -> 0
      [] t = "IosBundle" -> 0
      [] t = "AppImage" -> 0
      [] t = "Dmg" -> 1
      [] t = "Updater" -> 2

\* The outputs a package type consumes: Dmg wraps the .app of MacOsBundle
\* (settings.rs:72-74); the Updater archives the .app of MacOsBundle or the
\* .AppImage of AppImage (updater_bundle.rs:46-49, 82-85).
Prerequisite == {<<"MacOsBundle", "Dmg">>, <<"MacOsBundle", "Updater">>,
                 <<"AppImage", "Updater">>}

Range(f) == {f[i] : i \in DOMAIN f}

\* all sequences over S of length at most n
SeqsUpTo(S, n) == UNION {[1..k -> S] : k \in 0..n}

\* all sequences over S without a repeated element
DistinctSeqs(S) == {q \in SeqsUpTo(S, Cardinality(S)) :
                        \A i, j \in DOMAIN q : i # j => q[i] # q[j]}

RECURSIVE InsertByPriority(_, _)
\* t inserted into the sorted sequence q, behind every element whose priority
\* is not higher than its own (the sort is stable)
InsertByPriority(q, t) ==
    IF q = <<>> THEN <<t>>
    ELSE IF priority(Head(q)) <= priority(t)
         THEN <<Head(q)>> \o InsertByPriority(Tail(q), t)
         ELSE <<t>> \o q

RECURSIVE SortByPriority(_)
\* package_types.sort_by_key(|t| t.priority()): ascending, stable
SortByPriority(q) ==
    IF q = <<>> THEN <<>>
    ELSE InsertByPriority(SortByPriority(SubSeq(q, 1, Len(q) - 1)), q[Len(q)])

InitOrder ==
    /\ mode = "order"
    /\ requested \in DistinctSeqs(PackageType)
    /\ order = <<>> /\ built = <<>> /\ opc = "sort"
    /\ IdleOutput /\ IdleSettings /\ IdleUpdater /\ IdleRun /\ IdleBuild
    /\ IdleNames /\ IdleFs /\ IdleArchive /\ IdleConfig

\* the caller sorts the requested types by priority
SortTypes ==
    /\ mode = "order" /\ opc = "sort"
    /\ order' = SortByPriority(requested)
    /\ opc' = "build"
    /\ UNCHANGED <<mode, notOrder, requested, built>>

\* the caller runs the bundler of the next type in the order
BuildNext ==
    /\ mode = "order" /\ opc = "build" /\ order # <<>>
    /\ built' = Append(built, Head(order))
    /\ order' = Tail(order)
    /\ UNCHANGED <<mode, notOrder, requested, opc>>

\* every type is built
BuildDone ==
    /\ mode = "order" /\ opc = "build" /\ order = <<>>
    /\ opc' = "done"
    /\ UNCHANGED <<mode, notOrder, requested, order, built>>

NextOrder ==
    \/ SortTypes
    \/ BuildNext
    \/ BuildDone

SpecOrder == InitOrder /\ [][NextOrder]_vars

\* C5: for every requested set of package types, given in any order, building
\* in ascending priority() order builds a prerequisite before the type that
\* consumes it: the prerequisite has the strictly lower priority, and whenever a
\* type has been built, each of its requested prerequisites was built earlier.
C5_PrerequisiteFirst ==
    mode = "order" =>
        \A pd \in Prerequisite :
            /\ priority(pd[1]) < priority(pd[2])
            /\ \A i \in DOMAIN built :
                 (built[i] = pd[2] /\ pd[1] \in Range(requested)) =>
                     \E j \in 1..(i - 1) : built[j] = pd[1]

\* C5 witness: everything was requested with the dependents first, and the
\* build ran MacOsBundle, then Dmg, then Updater.
C5_Witness ==
    /\ mode = "order" /\ opc = "done"
    /\ requested = <<"Updater", "Dmg", "AppImage", "MacOsBundle">>
    /\ built = <<"AppImage", "MacOsBundle", "Dmg", "Updater">>

----------------------------------------------------------------------------
(* Settings::package_types, Settings::is_update_enabled (settings.rs)      *)

\* A string is a sequence of tokens; a token stands for a run of characters
\* that holds no '-', and "-" for the character '-' itself.
Targets == {<<"x86_64", "-", "unknown", "-", "linux", "-", "gnu">>,
            <<"aarch64", "-", "apple", "-", "darwin">>,
            <<"x86_64", "-", "pc", "-", "windows", "-", "msvc">>,
            <<"aarch64", "-", "apple", "-", "ios", "-", "sim">>,
            <<"x86_64", "-", "unknown", "-", "freebsd">>,
            <<"wasm32", "-", "wasi">>}

\* std::env::consts::OS of the hosts the tool is built for
Hosts == {"linux", "macos", "windows"}

\* the signing public keys of the model: the empty string and one key
Pubkeys == {<<>>, <<"dW50cnVzdGVk">>}

RECURSIVE split(_, _)
\* str::split(sep): the pieces of s between the occurrences of the token sep
split(s, sep) ==
    IF \A i \in DOMAIN s : s[i] # sep THEN <<s>>
    ELSE LET i == CHOOSE k \in DOMAIN s :
                     s[k] = sep /\ \A m \in 1..(k - 1) : s[m] # sep
         IN <<SubSeq(s, 1, i - 1)>> \o split(SubSeq(s, i + 1, Len(s)), sep)

\* Iterator::nth(n), n counted from 0
nth(q, n) == IF n + 1 <= Len(q) THEN Some(q[n + 1]) ELSE None

\* Option::unwrap_or
unwrap_or(o, default) == IF o.some THEN o.value ELSE default

\* str::replace(from, to) for a one-token pattern
replace(s, from, to) == [i \in DOMAIN s |-> IF s[i] = from THEN to ELSE s[i]]

\* settings.rs:548-553, the second '-'-separated piece instead of the third
target_os_second(t, host) ==
    replace(unwrap_or(nth(split(t, "-"), 1), <<host>>), "darwin", "macos")

\* settings.rs:548-553
\*   self.target.split('-').nth(2).unwrap_or(std::env::consts::OS).replace("darwin", "macos")
target_os(t, host) ==
    replace(unwrap_or(nth(split(t, "-"), 2), <<host>>), "darwin", "macos")

\* is_update_enabled that takes any configured updater for an enabled one
is_update_enabled_any_key(st) == st.updater.some

\* settings.rs:763-769  Settings::is_update_enabled
is_update_enabled(st) ==
    IF st.updater.some THEN st.updater.value.pubkey # <<>> ELSE FALSE

\* Error::Generic(format!("Native {os} bundles not yet supported."))
ErrNativeNotSupported(os) ==
    [kind |-> "Err", error |-> "Generic",
     message |-> <<"Native ">> \o os \o <<" bundles not yet supported.">>]

\* settings.rs:555-565  the match on target_os
native_types(os) ==
    CASE os = <<"macos">> -> Some(<<"MacOsBundle", "Dmg">>)
      [] os = <<"ios">> -> Some(<<"IosBundle">>)
      [] os = <<"linux">> -> Some(<<"AppImage">>)
      [] os = <<"windows">> -> Some(<<>>)
      [] OTHER -> None

\* settings.rs:567-569  if self.is_update_enabled() { platform_types.push(Updater) }
platform_types(st, host) ==
    LET native == native_types(target_os(st.target, host)).value
    IN IF is_update_enabled(st) THEN Append(native, "Updater") ELSE native

\* filter_requested that keeps every requested type
filter_requested_unfiltered(st, platform) ==
    IF st.package_types.some THEN st.package_types.value ELSE platform

\* settings.rs:571-586  the requested types that are platform types, in the
\* order requested; the platform types when nothing was requested
filter_requested(st, platform) ==
    IF st.package_types.some
    THEN SelectSeq(st.package_types.value, LAMBDA t : t \in Range(platform))
    ELSE platform

\* settings.rs:547-587  Settings::package_types
package_types(st, host) ==
    LET os == target_os(st.target, host) IN
    IF ~native_types(os).some THEN ErrNativeNotSupported(os)
    ELSE Ok(filter_requested(st, platform_types(st, host)))

\* The Settings values of the model, as SettingsBuilder::build leaves them.
SettingsValues ==
    [target : Targets,
     package_types : {None} \cup {Some(q) : q \in SeqsUpTo(PackageType, MaxRequested)},
     updater : {None} \cup {Some([pubkey |-> k]) : k \in Pubkeys}]

InitSettings ==
    /\ mode = "settings"
    /\ host_os \in Hosts
    /\ settings \in SettingsValues
    /\ pt_result = NoResult
    /\ IdleOutput /\ IdleOrder /\ IdleUpdater /\ IdleRun /\ IdleBuild
    /\ IdleNames /\ IdleFs /\ IdleArchive /\ IdleConfig

\* a call of settings.package_types()
PackageTypes ==
    /\ mode = "settings"
    /\ pt_result' = package_types(settings, host_os)
    /\ UNCHANGED <<mode, notSet, host_os, settings>>

NextSettings ==
    \/ PackageTypes

SpecSettings == InitSettings /\ [][NextSettings]_vars

\* the third '-'-separated piece of the target, when it has one
ThirdPiece ==
    LET pieces == split(settings.target, "-")
    IN IF Len(pieces) >= 3 THEN Some(pieces[3]) ELSE None

\* the native set the claim gives for an OS name
ClaimedNative(os) ==
    CASE os \in {<<"macos">>, <<"darwin">>} -> Some(<<"MacOsBundle", "Dmg">>)
      [] os = <<"ios">> -> Some(<<"IosBundle">>)
      [] os = <<"linux">> -> Some(<<"AppImage">>)
      [] os = <<"windows">> -> Some(<<>>)
      [] OTHER -> None

\* C9: with no explicitly requested package types and update support disabled,
\* package_types() returns the native set of the OS named by the third
\* '-'-separated piece of the target (darwin read as macos): [MacOsBundle, Dmg]
\* for macOS, [IosBundle] for iOS, [AppImage] for Linux, [] for Windows.
C9_NativeSet ==
    (/\ mode = "settings" /\ pt_result # NoResult
     /\ ~settings.package_types.some
     /\ ~is_update_enabled(settings)
     /\ ThirdPiece.some
     /\ ClaimedNative(ThirdPiece.value).some) =>
        pt_result = Ok(ClaimedNative(ThirdPiece.value).value)

\* C9 witness: package_types() answered [MacOsBundle, Dmg] for a darwin target
\* on a host that is not macOS, with an updater configured with an empty key.
C9_Witness ==
    /\ mode = "settings"
    /\ settings.target = <<"aarch64", "-", "apple", "-", "darwin">>
    /\ host_os = "linux"
    /\ ~settings.package_types.some
    /\ settings.updater = Some([pubkey |-> <<>>])
    /\ pt_result = Ok(<<"MacOsBundle", "Dmg">>)

\* C10: package_types() appends Updater to the native set exactly when an
\* updater configuration with a non-empty public key is present: with nothing
\* requested explicitly, the result is the native set followed by Updater in
\* that case and holds no Updater otherwise; and with no updater settings or an
\* empty key no result holds Updater, whatever was requested.
C10_UpdaterIffKey ==
    (mode = "settings" /\ pt_result.kind = "Ok") =>
        LET enabled == settings.updater.some /\ settings.updater.value.pubkey # <<>>
            native == native_types(target_os(settings.target, host_os)).value
        IN  /\ ~settings.package_types.some =>
                 /\ "Updater" \in Range(pt_result.value) <=> enabled
                 /\ enabled => pt_result.value = Append(native, "Updater")
            /\ ~enabled => "Updater" \notin Range(pt_result.value)

\* C10 witness: an updater with a key is configured for a Linux target and
\* package_types() answered [AppImage, Updater].
C10_Witness ==
    /\ mode = "settings"
    /\ ~settings.package_types.some
    /\ settings.updater.some /\ settings.updater.value.pubkey # <<>>
    /\ pt_result = Ok(<<"AppImage", "Updater">>)

\* C11: when package types were requested explicitly and the target OS has a
\* native set, package_types() returns Ok with exactly the requested types
\* that are in the native set (the native types, plus Updater when update
\* support is enabled), in the order requested; a requested type outside the
\* set is dropped and the result is never an error.
C11_RequestedInNativeSet ==
    (/\ mode = "settings" /\ pt_result # NoResult
     /\ settings.package_types.some
     /\ native_types(target_os(settings.target, host_os)).some) =>
        LET native == Range(native_types(target_os(settings.target, host_os)).value)
            allowed == IF is_update_enabled(settings)
                       THEN native \cup {"Updater"} ELSE native
        IN  pt_result =
                Ok(SelectSeq(settings.package_types.value, LAMBDA t : t \in allowed))

\* C11 witness: Dmg and AppImage were requested for a Linux target and
\* package_types() answered Ok([AppImage]): Dmg was dropped without an error.
C11_Witness ==
    /\ mode = "settings"
    /\ settings.target = <<"x86_64", "-", "unknown", "-", "linux", "-", "gnu">>
    /\ settings.package_types = Some(<<"Dmg", "AppImage">>)
    /\ pt_result = Ok(<<"AppImage">>)

\* C17 as stated: priority() is a total order on package types: any two
\* distinct types that a caller requests have strictly different priorities.
C17_PriorityTotalOrder ==
    (mode = "settings" /\ settings.package_types.some) =>
        \A a, b \in Range(settings.package_types.value) :
            a # b => priority(a) # priority(b)

\* C17, amended: priority() puts MacOsBundle, IosBundle and AppImage in one
\* class (0), before Dmg (1), before Updater (2); any two distinct types that
\* package_types() returns together have strictly different priorities, so
\* sorting a result of package_types() by priority gives one single order.
C17_StrictWithinResult ==
    /\ \A a, b \in PackageType :
           priority(a) = priority(b) =>
               a = b \/ {a, b} \subseteq {"MacOsBundle", "IosBundle", "AppImage"}
    /\ (mode = "settings" /\ pt_result.kind = "Ok") =>
           \A a, b \in Range(pt_result.value) : a # b => priority(a) # priority(b)

\* C17 witness: package_types() returned three types for a macOS target with
\* update support enabled, each of a priority of its own.
C17_Witness ==
    /\ mode = "settings"
    /\ pt_result = Ok(<<"MacOsBundle", "Dmg", "Updater">>)
    /\ priority("MacOsBundle") < priority("Dmg")
    /\ priority("Dmg") < priority("Updater")

----------------------------------------------------------------------------
(* updater_bundle::bundle_project (cli/ and clitemp/ updater_bundle.rs)    *)

\* A path is the sequence of the '.'-separated pieces of its file name.
BundlePaths == {<<"App", "app">>, <<"App", "AppImage">>, <<"App", "dmg">>}

\* the package types of the bundles that precede the Updater in a run
BundledTypes == {"MacOsBundle", "AppImage", "Dmg"}

\* struct Bundle { package_type, bundle_paths }
Bundles == [package_type : BundledTypes, bundle_paths : SeqsUpTo(BundlePaths, MaxPaths)]

\* Path::extension(): the piece behind the last '.', if there is a '.'
extension(path) == IF Len(path) >= 2 THEN Some(path[Len(path)]) ELSE None

\* Path::with_extension("tar.gz"): the last piece gives way to the new ones
with_extension_tar_gz(path) ==
    (IF Len(path) >= 2 THEN SubSeq(path, 1, Len(path) - 1) ELSE path)
        \o <<"tar", "gz">>

\* format!("{}.tar.gz", source_path.display())
with_tar_gz(path) == path \o <<"tar", "gz">>

\* bundle_project with the Linux archiver on every host that is not macOS
archiver_cli_linux_elsewhere(host) ==
    CASE host = "macos" -> "bundle_update_macos"
      [] OTHER -> "bundle_update_linux"

\* cli/src/bundler/bundle/updater_bundle.rs:26-36: which archiver the cfg
\* attributes leave in bundle_project on a host
archiver_cli(host) ==
    CASE host = "macos" -> "bundle_update_macos"
      [] host = "linux" -> "bundle_update_linux"
      [] OTHER -> "none"

\* clitemp/src/bundler/bundle/updater_bundle.rs:17-24: the same for this copy
archiver_clitemp(host) ==
    CASE host = "macos" -> "bundle_update_macos"
      [] OTHER -> "none"

archiver(impl, host) ==
    IF impl = "cli" THEN archiver_cli(host) ELSE archiver_clitemp(host)

\* the package type and the extension an archiver looks for
\* (bundle_update_macos: updater_bundle.rs:47, 52; bundle_update_linux: 83, 88)
Wanted == [bundle_update_macos |-> [package_type |-> "MacOsBundle", ext |-> "app"],
           bundle_update_linux |-> [package_type |-> "AppImage", ext |-> "AppImage"]]

\* bundle.bundle_paths.iter().find(|path| path.extension() == Some(ext))
find_path(paths, ext) ==
    LET hits == SelectSeq(paths, LAMBDA p : extension(p) = Some(ext))
    IN IF hits = <<>> THEN None ELSE Some(Head(hits))

\* bundles.iter().filter(|b| b.package_type == ty).find_map(|b| find_path(..))
find_source_path(bs, ty, ext) ==
    LET hits == SelectSeq(bs, LAMBDA b : b.package_type = ty
                                          /\ find_path(b.bundle_paths, ext).some)
    IN IF hits = <<>> THEN None ELSE find_path(Head(hits).bundle_paths, ext)

\* Error::UnableToFindProject (error.rs:79-81)
UnableToFindProject ==
    [kind |-> "Err", error |-> "UnableToFindProject",
     message |-> <<"Unable to find a bundled project for the updater">>]

\* the error of create_tar with the context "Failed to tar.gz update directory"
ErrTar == [kind |-> "Err", error |-> "Context",
           message |-> <<"Failed to tar.gz update directory">>]

InitUpdater ==
    /\ mode = "updater"
    /\ u_impl \in {"cli", "clitemp"}
    /\ u_host \in Hosts
    /\ bundles \in SeqsUpTo(Bundles, MaxBundles)
    /\ u_pc = "locate"
    /\ source_path = None
    /\ u_result = NoResult
    /\ u_written = {}
    /\ IdleOutput /\ IdleOrder /\ IdleSettings /\ IdleRun /\ IdleBuild
    /\ IdleNames /\ IdleFs /\ IdleArchive /\ IdleConfig

\* bundle_project on a host without an archiver:
\* log::error!("Current platform does not support updates"); Ok(vec![])
NoArchiver ==
    /\ mode = "updater" /\ u_pc = "locate"
    /\ archiver(u_impl, u_host) = "none"
    /\ u_result' = Ok(<<>>)
    /\ u_pc' = "done"
    /\ UNCHANGED <<mode, notUpd, u_impl, u_host, bundles, source_path, u_written>>

\* bundle_update_macos / bundle_update_linux: the `if let Some(source_path)`
LocateFound ==
    /\ mode = "updater" /\ u_pc = "locate"
    /\ archiver(u_impl, u_host) # "none"
    /\ LET w == Wanted[archiver(u_impl, u_host)]
           found == find_source_path(bundles, w.package_type, w.ext)
       IN /\ found.some
          /\ source_path' = found
    /\ u_pc' = "archive"
    /\ UNCHANGED <<mode, notUpd, u_impl, u_host, bundles, u_result, u_written>>

\* bundle_update_macos / bundle_update_linux: else Err(UnableToFindProject)
LocateFails ==
    /\ mode = "updater" /\ u_pc = "locate"
    /\ archiver(u_impl, u_host) # "none"
    /\ LET w == Wanted[archiver(u_impl, u_host)]
       IN ~find_source_path(bundles, w.package_type, w.ext).some
    /\ u_result' = UnableToFindProject
    /\ u_pc' = "done"
    /\ UNCHANGED <<mode, notUpd, u_impl, u_host, bundles, source_path, u_written>>

\* create_tar(source_path, &archived_path) succeeds: Ok(vec![archived_path]).
\* create_tar creates the file at archived_path, reads the source, and
\* finishes and flushes the stream before it returns (TarCreate .. TarFinish)
ArchiveOk ==
    /\ mode = "updater" /\ u_pc = "archive"
    /\ u_written' = u_written \cup {with_tar_gz(source_path.value)}
    /\ u_result' = Ok(<<with_tar_gz(source_path.value)>>)
    /\ u_pc' = "done"
    /\ UNCHANGED <<mode, notUpd, u_impl, u_host, bundles, source_path>>

\* create_tar fails and `?` returns its error: before the file at
\* archived_path exists (TarCreateFails) or after it was created
ArchiveFails ==
    /\ mode = "updater" /\ u_pc = "archive"
    /\ \E created \in BOOLEAN :
          u_written' = IF created
                       THEN u_written \cup {with_tar_gz(source_path.value)}
                       ELSE u_written
    /\ u_result' = ErrTar
    /\ u_pc' = "done"
    /\ UNCHANGED <<mode, notUpd, u_impl, u_host, bundles, source_path>>

NextUpdater ==
    \/ NoArchiver
    \/ LocateFound
    \/ LocateFails
    \/ ArchiveOk
    \/ ArchiveFails

SpecUpdater == InitUpdater /\ [][NextUpdater]_vars

\* the prerequisite the claim names for a host: the package type and the
\* extension of the path the Updater needs
ClaimedPrerequisite == [macos |-> [package_type |-> "MacOsBundle", ext |-> "app"],
                        linux |-> [package_type |-> "AppImage", ext |-> "AppImage"]]

\* some bundle of the list is of the prerequisite type and holds such a path
HoldsPrerequisite(bs, host) ==
    \E i \in DOMAIN bs :
        /\ bs[i].package_type = ClaimedPrerequisite[host].package_type
        /\ \E j \in DOMAIN bs[i].bundle_paths :
              extension(bs[i].bundle_paths[j]) = Some(ClaimedPrerequisite[host].ext)

\* C6 (as claimed): on macOS and on Linux, bundle_project with a bundle list
\* that holds no prerequisite path fails with UnableToFindProject and never
\* returns a success with an empty artifact list.
C6_MissingPrerequisiteFails ==
    (/\ mode = "updater" /\ u_pc = "done"
     /\ u_host \in DOMAIN ClaimedPrerequisite
     /\ ~HoldsPrerequisite(bundles, u_host)) =>
        u_result = UnableToFindProject

\* C26: when the Updater locates its prerequisite at the path P and archiving
\* succeeds, bundle_project returns exactly one path, P with ".tar.gz"
\* appended (next to P), the archive at that path was written before the
\* return, and P itself was not written to.
C26_ArchiveNextToSource ==
    mode = "updater" =>
        /\ u_pc = "done" /\ source_path.some /\ u_result.kind = "Ok" =>
              /\ \E i \in DOMAIN bundles : \E j \in DOMAIN bundles[i].bundle_paths :
                    bundles[i].bundle_paths[j] = source_path.value
              /\ Len(u_result.value) = 1
              /\ u_result.value[1] = source_path.value \o <<"tar", "gz">>
              /\ u_result.value[1] \in u_written
              /\ source_path.value \notin u_written
        /\ u_pc # "done" => u_written = {}
        /\ source_path.some => source_path.value \notin u_written

\* C26 happens: an AppImage was located and archived
C26_Witness ==
    /\ mode = "updater" /\ u_pc = "done" /\ u_result.kind = "Ok"
    /\ source_path = Some(<<"App", "AppImage">>)
    /\ u_written # {}

----------------------------------------------------------------------------
(* commands::bundle::run (cli/src/commands/bundle/mod.rs)                  *)

\* the --target values of the model
RunTargets == {<<"x86_64", "-", "unknown", "-", "linux", "-", "gnu">>,
               <<"aarch64", "-", "apple", "-", "darwin">>,
               <<"x86_64", "-", "pc", "-", "windows", "-", "msvc">>}

\* the bundle types run knows
BundleTypeNames == {"appimage", "flatpak", "appbundle", "dmg", "pkg",
                    "msi", "msix", "wix", "zip"}

\* str::contains(pat)
contains(t, pat) ==
    \E i \in 1..(Len(t) - Len(pat) + 1) : SubSeq(t, i, i + Len(pat) - 1) = pat

\* mod.rs:24-80 with the msix site calling the msi bundler
SitesMsixCallsMsi ==
    << [platform |-> "linux", type |-> "appimage", bundler |-> "linux::appimage",
        call_on |-> {"linux"}, warn_on |-> Hosts \ {"linux"}],
       [platform |-> "linux", type |-> "flatpak", bundler |-> "linux::flatpak",
        call_on |-> {"linux"}, warn_on |-> Hosts \ {"linux"}],
       [platform |-> "macos", type |-> "appbundle", bundler |-> "macos::appbundle",
        call_on |-> Hosts, warn_on |-> {}],
       [platform |-> "macos", type |-> "dmg", bundler |-> "macos::dmg",
        call_on |-> {"macos"}, warn_on |-> Hosts \ {"macos"}],
       [platform |-> "macos", type |-> "pkg", bundler |-> "macos::pkg",
        call_on |-> {"macos"}, warn_on |-> Hosts \ {"macos"}],
       [platform |-> "windows", type |-> "msi", bundler |-> "windows::msi",
        call_on |-> Hosts, warn_on |-> {}],
       [platform |-> "windows", type |-> "msix", bundler |-> "windows::msi",
        call_on |-> Hosts, warn_on |-> {}],
       [platform |-> "windows", type |-> "wix", bundler |-> "windows::wix",
        call_on |-> {"linux"}, warn_on |-> Hosts \ {"windows"}],
       [platform |-> "windows", type |-> "zip", bundler |-> "windows::zip",
        call_on |-> Hosts, warn_on |-> {}] >>

\* mod.rs:24-80: the bundle sites of run in program order.  A site is
\*     #[cfg(..)] if all || bundle_types.iter().any(|v| v == type) {
\*         bundle_paths.push(bundler::bundle()?);
\*     }
\*     #[cfg(..)] unsupported(platform, type);
\* inside the `if` block of its platform; call_on are the hosts on which the cfg
\* attribute keeps the call, warn_on those on which it keeps unsupported(..).
Sites ==
    << [platform |-> "linux", type |-> "appimage", bundler |-> "linux::appimage",
        call_on |-> {"linux"}, warn_on |-> Hosts \ {"linux"}],
       [platform |-> "linux", type |-> "flatpak", bundler |-> "linux::flatpak",
        call_on |-> {"linux"}, warn_on |-> Hosts \ {"linux"}],
       [platform |-> "macos", type |-> "appbundle", bundler |-> "macos::appbundle",
        call_on |-> Hosts, warn_on |-> {}],
       [platform |-> "macos", type |-> "dmg", bundler |-> "macos::dmg",
        call_on |-> {"macos"}, warn_on |-> Hosts \ {"macos"}],
       [platform |-> "macos", type |-> "pkg", bundler |-> "macos::pkg",
        call_on |-> {"macos"}, warn_on |-> Hosts \ {"macos"}],
       [platform |-> "windows", type |-> "msi", bundler |-> "windows::msi",
        call_on |-> Hosts, warn_on |-> {}],
       [platform |-> "windows", type |-> "msix", bundler |-> "windows::msix",
        call_on |-> Hosts, warn_on |-> {}],
       [platform |-> "windows", type |-> "wix", bundler |-> "windows::wix",
        call_on |-> {"linux"}, warn_on |-> Hosts \ {"windows"}],
       [platform |-> "windows", type |-> "zip", bundler |-> "windows::zip",
        call_on |-> Hosts, warn_on |-> {}] >>

\* the substring of a --target value that selects the block of a platform
\* (mod.rs:18-20)
TargetPattern == [linux |-> <<"linux">>, macos |-> <<"darwin">>, windows |-> <<"windows">>]

\* mod.rs:11  let all = bundle_types.is_empty();
all == bundle_types = <<>>

\* mod.rs:12  let target_arg = !args.target.is_empty();
target_arg == args_target # <<>>

\* mod.rs:14-20, 24, 41, 61  the condition of the block of a platform:
\* linux || default_linux, macos || default_macos, windows || default_windows
block_selected(platform) ==
    \/ \E i \in DOMAIN args_target : contains(args_target[i], TargetPattern[platform])
    \/ ~target_arg /\ r_host = platform

\* all || bundle_types.iter().any(|v| v == type)
type_requested(type) == all \/ \E i \in DOMAIN bundle_types : bundle_types[i] = type

\* the outcomes of a bundler: windows::msix::bundle is Ok(PathBuf::new())
\* (windows/msix.rs:5-7); the other bundlers may fail
Outcomes(bundler) == IF bundler = "windows::msix" THEN {TRUE} ELSE BOOLEAN

\* the `?` applied to a bundler's result, ignoring the failure
returns_early_never(ok) == FALSE
\* the `?` applied to a bundler's result: run returns at once on a failure
returns_early(ok) == ~ok

\* the anyhow error a bundler returned
ErrBundler(bundler) == [kind |-> "Err", error |-> "Bundler", message |-> <<bundler>>]

\* what the site adds to `warned` on this host
Warning(s) == IF r_host \in s.warn_on THEN <<  <<s.platform, s.type>>  >> ELSE <<>>

InitRun ==
    /\ mode = "run"
    /\ r_host \in Hosts
    /\ args_target \in SeqsUpTo(RunTargets, MaxTargets)
    /\ bundle_types \in SeqsUpTo(BundleTypeNames, MaxTypes)
    /\ site = 1
    /\ invoked = <<>> /\ bundle_paths = <<>> /\ warned = <<>>
    /\ run_result = NoResult
    /\ IdleOutput /\ IdleOrder /\ IdleSettings /\ IdleUpdater /\ IdleBuild
    /\ IdleNames /\ IdleFs /\ IdleArchive /\ IdleConfig

AtSite == mode = "run" /\ run_result = NoResult /\ site \in DOMAIN Sites

\* the block of the site's platform is not entered (mod.rs:24, 41, 61)
SkipSite ==
    /\ AtSite
    /\ ~block_selected(Sites[site].platform)
    /\ site' = site + 1
    /\ UNCHANGED <<mode, notRun, r_host, args_target, bundle_types, invoked,
                   bundle_paths, warned, run_result>>

\* inside the block, the site makes no call: the call is compiled out on this
\* host or the type is not requested; unsupported(..) runs if compiled in
SiteWithoutCall ==
    /\ AtSite
    /\ LET s == Sites[site] IN
         /\ block_selected(s.platform)
         /\ ~(r_host \in s.call_on /\ type_requested(s.type))
         /\ warned' = warned \o Warning(s)
    /\ site' = site + 1
    /\ UNCHANGED <<mode, notRun, r_host, args_target, bundle_types, invoked,
                   bundle_paths, run_result>>

\* inside the block, the site calls its bundler, which returns Ok(path) (ok) or
\* a failure; `?` returns the failure, else the path is pushed and
\* unsupported(..) runs if compiled in
SiteCall(ok) ==
    /\ AtSite
    /\ LET s == Sites[site] IN
         /\ block_selected(s.platform)
         /\ r_host \in s.call_on /\ type_requested(s.type)
         /\ ok \in Outcomes(s.bundler)
         /\ invoked' = Append(invoked, [bundler |-> s.bundler, ok |-> ok])
         /\ IF returns_early(ok)
            THEN /\ run_result' = ErrBundler(s.bundler)
                 /\ UNCHANGED <<bundle_paths, warned, site>>
            ELSE /\ bundle_paths' = IF ok THEN Append(bundle_paths, s.bundler)
                                          ELSE bundle_paths
                 /\ warned' = warned \o Warning(s)
                 /\ site' = site + 1
                 /\ UNCHANGED run_result
    /\ UNCHANGED <<mode, notRun, r_host, args_target, bundle_types>>

\* mod.rs:82  Ok(())
RunReturn ==
    /\ mode = "run" /\ run_result = NoResult /\ site = Len(Sites) + 1
    /\ run_result' = Ok(<<>>)
    /\ UNCHANGED <<mode, notRun, r_host, args_target, bundle_types, site, invoked,
                   bundle_paths, warned>>

NextRun ==
    \/ SkipSite
    \/ SiteWithoutCall
    \/ \E ok \in BOOLEAN : SiteCall(ok)
    \/ RunReturn

SpecRun == InitRun /\ [][NextRun]_vars

\* the bundlers of the model
Bundlers == {Sites[i].bundler : i \in DOMAIN Sites}

\* how often a bundler was called so far
TimesInvoked(b) == Cardinality({i \in DOMAIN invoked : invoked[i].bundler = b})

\* C7: in one run, for every host, every list of --target values and every
\* list of bundle types, no bundler is called more than once.
C7_AtMostOnce ==
    mode = "run" => \A b \in Bundlers : TimesInvoked(b) <= 1

\* C7 witness: a run on Linux with two Linux targets that names appimage twice
\* has returned, and called the appimage bundler once.
C7_Witness ==
    /\ mode = "run" /\ run_result.kind = "Ok"
    /\ r_host = "linux"
    /\ Len(args_target) = 2 /\ args_target[1] = args_target[2]
    /\ contains(args_target[1], <<"linux">>)
    /\ bundle_types = <<"appimage", "appimage">>
    /\ invoked = <<[bundler |-> "linux::appimage", ok |-> TRUE]>>

\* C8: a failure of a bundler ends the run: the failed call is the last call of
\* the run, and the run has returned that failure.
C8_StopsAtFirstFailure ==
    mode = "run" =>
        \A i \in DOMAIN invoked :
            ~invoked[i].ok =>
                /\ i = Len(invoked)
                /\ run_result = ErrBundler(invoked[i].bundler)

\* C8 witness: with every type requested on macOS, the appbundle bundler failed;
\* the run returned its failure and the dmg and pkg bundlers were never called.
C8_Witness ==
    /\ mode = "run" /\ r_host = "macos"
    /\ args_target = <<>> /\ bundle_types = <<>>
    /\ invoked = <<[bundler |-> "macos::appbundle", ok |-> FALSE]>>
    /\ run_result = ErrBundler("macos::appbundle")

\* the bundler of the site k was called in this run
WasInvoked(k) == \E i \in DOMAIN invoked : invoked[i].bundler = Sites[k].bundler

\* the type of the site k was reported as unsupported in this run
WasReported(k) ==
    \E j \in DOMAIN warned : warned[j] = <<Sites[k].platform, Sites[k].type>>

\* C28: in a run that went through, for every host, every selected platform
\* and every requested bundle type of that platform, either its bundler was
\* invoked or it was reported as unsupported, never both and never neither;
\* a type that was not requested or whose platform was not selected is not
\* reported.
C28_InvokedXorReported ==
    mode = "run" /\ run_result.kind = "Ok" =>
        \A k \in DOMAIN Sites :
            IF block_selected(Sites[k].platform) /\ type_requested(Sites[k].type)
            THEN WasInvoked(k) # WasReported(k)
            ELSE ~WasInvoked(k) /\ ~WasReported(k)

----------------------------------------------------------------------------
(* SettingsBuilder::build and the Settings accessors (settings.rs)         *)

\* log::Level values of the model
LogLevels == {"Error", "Debug"}

\* The target strings a caller hands to SettingsBuilder::target.  The first
\* '-'-separated piece is cut into tokens where the prefixes tested by
\* binary_arch() end: "i686" is <<"i", "686">>, "armv7" is <<"arm", "v7">>.
BuildTargets == {<<"x86_64", "-", "unknown", "-", "linux", "-", "gnu">>,
                 <<"i", "686", "-", "pc", "-", "windows", "-", "msvc">>,
                 <<"arm", "v7", "-", "unknown", "-", "linux", "-", "gnueabihf">>,
                 <<"aarch64", "-", "apple", "-", "darwin">>,
                 <<"universal", "-", "apple", "-", "darwin">>,
                 <<"i", "a64", "-", "unknown", "-", "linux", "-", "gnu">>,
                 <<"riscv64gc", "-", "unknown", "-", "linux", "-", "gnu">>,
                 <<"wasm32", "-", "wasi">>}

\* the names of the binaries, by their place in the list
BinaryNames == <<"app", "helper", "tool", "extra">>

\* settings.rs:315-321  BundleBinary::new(name, main)
new(name, main) == [name |-> name, src_path |-> None, main |-> main]

\* the Vec<BundleBinary> values a caller hands to SettingsBuilder::binaries
BinaryLists ==
    UNION {{[i \in 1..n |-> new(BinaryNames[i], m[i])] : m \in [1..n -> BOOLEAN]}
           : n \in 0..MaxBinaries}

\* the BundleSettings values a caller hands to SettingsBuilder::bundle_settings:
\* `resources` is a list of paths, `resources_map` a map from path to target
BundleSettingsValues ==
    [resources : {None, Some(<<"assets">>)},
     resources_map : {None, Some(<<<<"assets", "share">>>>)}]

\* what a call that panicked gave
Panic(msg) == [kind |-> "panic", message |-> msg]

\* str::starts_with
starts_with(s, pat) == Len(pat) <= Len(s) /\ SubSeq(s, 1, Len(pat)) = pat

\* platform::target_triple(): the target triple derived from the host platform
target_triple(host) ==
    CASE host = "linux" -> <<"x86_64", "-", "unknown", "-", "linux", "-", "gnu">>
      [] host = "macos" -> <<"aarch64", "-", "apple", "-", "darwin">>
      [] host = "windows" -> <<"x86_64", "-", "pc", "-", "windows", "-", "msvc">>

\* settings.rs:391-393  SettingsBuilder::new(), Default::default()
DefaultBuilder ==
    [log_level |-> None, project_out_directory |-> None, package_settings |-> None,
     bundle_settings |-> [resources |-> None, resources_map |-> None],
     binaries |-> <<>>, target |-> None]

\* settings.rs:450-475  SettingsBuilder::build
build(b, host) ==
    LET target == IF b.target.some THEN b.target.value ELSE target_triple(host) IN
    IF ~b.package_settings.some THEN Panic("package settings is required")
    ELSE IF ~b.project_out_directory.some THEN Panic("out directory is required")
    ELSE Ok([log_level |-> unwrap_or(b.log_level, "Error"),
             package |-> b.package_settings.value,
             project_out_directory |-> b.project_out_directory.value,
             binaries |-> b.binaries,
             bundle_settings |-> b.bundle_settings,
             target |-> target])

\* set_log_level that also forgets the binaries
set_log_level_and_binaries(st, level) ==
    [st EXCEPT !.log_level = level, !.binaries = <<>>]

\* settings.rs:480-482  Settings::set_log_level
set_log_level(st, level) == [st EXCEPT !.log_level = level]

\* settings.rs:500-514  Settings::binary_arch
binary_arch(st) ==
    IF starts_with(st.target, <<"x86_64">>) THEN Ok("x86_64")
    ELSE IF starts_with(st.target, <<"i">>) THEN Ok("x86")
    ELSE IF starts_with(st.target, <<"arm">>) THEN Ok("arm")
    ELSE IF starts_with(st.target, <<"aarch64">>) THEN Ok("aarch64")
    ELSE IF starts_with(st.target, <<"universal">>) THEN Ok("universal")
    ELSE Panic(<<"Unexpected target triple ">> \o st.target)

\* settings.rs:517-524  Settings::main_binary_name: the name of the first
\* binary with bin.main
main_binary_name(st) ==
    LET mains == {i \in DOMAIN st.binaries : st.binaries[i].main} IN
    IF mains = {} THEN Panic("failed to find main binary")
    ELSE Ok(st.binaries[CHOOSE i \in mains : \A j \in mains : i <= j].name)

\* settings.rs:614-624  Settings::resource_files
resource_files(st) ==
    LET list == st.bundle_settings.resources
        map == st.bundle_settings.resources_map
    IN CASE list.some /\ ~map.some -> Ok([from |-> "new", items |-> list.value])
         [] ~list.some /\ map.some -> Ok([from |-> "from_map", items |-> map.value])
         [] list.some /\ map.some ->
                Panic("cannot use both resources and resources_map")
         [] OTHER -> Ok([from |-> "new", items |-> <<>>])

InitBuild ==
    /\ mode = "build"
    /\ builder = DefaultBuilder
    /\ b_host \in Hosts
    /\ b_result = NoResult /\ sett = <<>> /\ call = NoResult
    /\ IdleOutput /\ IdleOrder /\ IdleSettings /\ IdleUpdater /\ IdleRun
    /\ IdleNames /\ IdleFs /\ IdleArchive /\ IdleConfig

\* the builder is still owned by the caller: build(self) has not consumed it
Building == mode = "build" /\ b_result = NoResult

\* settings.rs:397-401  SettingsBuilder::project_out_directory
BuilderProjectOutDirectory ==
    /\ Building
    /\ builder' = [builder EXCEPT !.project_out_directory = Some("target/release")]
    /\ UNCHANGED <<mode, notBuild, b_host, b_result, sett, call>>

\* settings.rs:412-415  SettingsBuilder::package_settings
BuilderPackageSettings ==
    /\ Building
    /\ builder' = [builder EXCEPT !.package_settings = Some("package")]
    /\ UNCHANGED <<mode, notBuild, b_host, b_result, sett, call>>

\* settings.rs:419-422  SettingsBuilder::bundle_settings
BuilderBundleSettings ==
    /\ Building
    /\ \E bs \in BundleSettingsValues :
           builder' = [builder EXCEPT !.bundle_settings = bs]
    /\ UNCHANGED <<mode, notBuild, b_host, b_result, sett, call>>

\* settings.rs:426-429  SettingsBuilder::binaries
BuilderBinaries ==
    /\ Building
    /\ \E bins \in BinaryLists : builder' = [builder EXCEPT !.binaries = bins]
    /\ UNCHANGED <<mode, notBuild, b_host, b_result, sett, call>>

\* settings.rs:433-436  SettingsBuilder::target
BuilderTarget ==
    /\ Building
    /\ \E t \in BuildTargets : builder' = [builder EXCEPT !.target = Some(t)]
    /\ UNCHANGED <<mode, notBuild, b_host, b_result, sett, call>>

\* settings.rs:440-443  SettingsBuilder::log_level
BuilderLogLevel ==
    /\ Building
    /\ \E l \in LogLevels : builder' = [builder EXCEPT !.log_level = Some(l)]
    /\ UNCHANGED <<mode, notBuild, b_host, b_result, sett, call>>

\* a call of builder.build(); the caller keeps the Settings of an Ok
Build ==
    /\ Building
    /\ b_result' = build(builder, b_host)
    /\ sett' = IF build(builder, b_host).kind = "Ok"
               THEN build(builder, b_host).value ELSE sett
    /\ UNCHANGED <<mode, notBuild, builder, b_host, call>>

\* the caller holds a Settings value and no call on it has panicked
Built ==
    /\ mode = "build" /\ b_result.kind = "Ok"
    /\ IF call = NoResult THEN TRUE ELSE call.result.kind # "panic"

\* a call of settings.set_log_level(level)
SetLogLevel ==
    /\ Built
    /\ \E level \in LogLevels :
           /\ sett' = set_log_level(sett, level)
           /\ call' = [op |-> "set_log_level", result |-> Ok(level)]
    /\ UNCHANGED <<mode, notBuild, builder, b_host, b_result>>

\* a call of settings.binary_arch()
BinaryArch ==
    /\ Built
    /\ call' = [op |-> "binary_arch", result |-> binary_arch(sett)]
    /\ UNCHANGED <<mode, notBuild, builder, b_host, b_result, sett>>

\* a call of settings.main_binary_name()
MainBinaryName ==
    /\ Built
    /\ call' = [op |-> "main_binary_name", result |-> main_binary_name(sett)]
    /\ UNCHANGED <<mode, notBuild, builder, b_host, b_result, sett>>

\* a call of settings.resource_files()
ResourceFiles ==
    /\ Built
    /\ call' = [op |-> "resource_files", result |-> resource_files(sett)]
    /\ UNCHANGED <<mode, notBuild, builder, b_host, b_result, sett>>

NextBuild ==
    \/ BuilderProjectOutDirectory
    \/ BuilderPackageSettings
    \/ BuilderBundleSettings
    \/ BuilderBinaries
    \/ BuilderTarget
    \/ BuilderLogLevel
    \/ Build
    \/ SetLogLevel
    \/ BinaryArch
    \/ MainBinaryName
    \/ ResourceFiles

SpecBuild == InitBuild /\ [][NextBuild]_vars

\* the last call on the Settings value was `op`
Called(op) == mode = "build" /\ call # NoResult /\ call.op = op

\* C12: SettingsBuilder::build is rejected when the bundle settings have both
\* `resources` and `resources_map` set: build does not return Ok.
C12_BothResourcesRejected ==
    (/\ mode = "build" /\ b_result # NoResult
     /\ builder.bundle_settings.resources.some
     /\ builder.bundle_settings.resources_map.some) =>
        b_result.kind # "Ok"

\* C13: every Settings value that build returned has a target with at least
\* three '-'-separated components, supplied by the caller or derived from the
\* host.
C13_TargetHasThreeParts ==
    (mode = "build" /\ b_result.kind = "Ok") =>
        Len(split(b_result.value.target, "-")) >= 3

\* the architecture family the first component of a target belongs to
ClaimedArch(first) ==
    CASE first = <<"x86_64">> -> Some("x86_64")
      [] first = <<"i", "686">> -> Some("x86")
      [] first = <<"arm", "v7">> -> Some("arm")
      [] first = <<"aarch64">> -> Some("aarch64")
      [] first = <<"universal">> -> Some("universal")
      [] OTHER -> None

\* C14: binary_arch() returns the architecture family of the first component
\* of the target (x86_64, x86, arm, aarch64 or universal), and panics for
\* every target whose first component belongs to none of the five families.
C14_BinaryArch ==
    Called("binary_arch") =>
        LET family == ClaimedArch(split(sett.target, "-")[1])
        IN IF family.some THEN call.result = Ok(family.value)
           ELSE call.result.kind = "panic"

\* C15: main_binary_name() succeeds if and only if exactly one binary of the
\* Settings is marked main; with none or with more than one it fails.
C15_ExactlyOneMain ==
    Called("main_binary_name") =>
        (call.result.kind = "Ok" <=>
            Cardinality({i \in DOMAIN sett.binaries : sett.binaries[i].main}) = 1)

\* C18 as stated: once built, no operation on the Settings value changes any
\* of its fields: the value the caller holds stays the value build returned.
C18_ReadOnlyAfterBuild ==
    (mode = "build" /\ b_result.kind = "Ok") => sett = b_result.value

\* C18, amended: once built, no operation on the Settings value changes any
\* field other than log_level; set_log_level is the one operation that writes,
\* and it writes log_level alone.
C18_OnlyLogLevelChanges ==
    (mode = "build" /\ b_result.kind = "Ok") =>
        /\ [sett EXCEPT !.log_level = "Error"] =
               [b_result.value EXCEPT !.log_level = "Error"]
        /\ sett.log_level # b_result.value.log_level =>
               \E level \in LogLevels : sett = set_log_level(b_result.value, level)

\* C18 witness: Settings built with two binaries and the default log level,
\* then set_log_level(Debug) was called: log_level is Debug and the binaries
\* are the ones build returned.
C18_Witness ==
    /\ Called("set_log_level")
    /\ b_result.value.log_level = "Error"
    /\ sett.log_level = "Debug"
    /\ Len(sett.binaries) = 2

----------------------------------------------------------------------------
(* PackageType::from_short_name and PackageType::short_name (settings.rs)  *)

\* the strings given as short names: the five names of the variants, names
\* of package types of other bundlers, a name in upper case, the empty string
ShortNames == {"ios", "app", "appimage", "dmg", "updater",
               "deb", "msi", "rpm", "nsis", "APP", ""}

\* from_short_name that reads "app" as Dmg
from_short_name_app_is_dmg(name) ==
    CASE name = "ios" -> Some("IosBundle")
      [] name = "app" -> Some("Dmg")
      [] name = "appimage" -> Some("AppImage")
      [] name = "dmg" -> Some("Dmg")
      [] name = "updater" -> Some("Updater")
      [] OTHER -> None

\* settings.rs:42-52  PackageType::from_short_name
from_short_name(name) ==
    CASE name = "ios" -> Some("IosBundle")
      [] name = "app" -> Some("MacOsBundle")
      [] name = "appimage" -> Some("AppImage")
      [] name = "dmg" -> Some("Dmg")
      [] name = "updater" -> Some("Updater")
      [] OTHER -> None

\* settings.rs:56-64  PackageType::short_name
short_name(t) ==
    CASE t = "IosBundle" -> "ios"
      [] t = "MacOsBundle" -> "app"
      [] t = "AppImage" -> "appimage"
      [] t = "Dmg" -> "dmg"
      [] t = "Updater" -> "updater"

InitNames ==
    /\ mode = "names"
    /\ n_type \in PackageType
    /\ n_name \in ShortNames
    /\ n_shown = None /\ n_parsed = None /\ n_reparsed = None /\ n_reshown = None
    /\ IdleOutput /\ IdleOrder /\ IdleSettings /\ IdleUpdater /\ IdleRun
    /\ IdleBuild /\ IdleFs /\ IdleArchive /\ IdleConfig

\* a call of n_type.short_name()
ShortName ==
    /\ mode = "names"
    /\ n_shown' = Some(short_name(n_type))
    /\ UNCHANGED <<mode, notName, n_type, n_name, n_parsed, n_reparsed, n_reshown>>

\* a call of PackageType::from_short_name(n_name)
FromShortName ==
    /\ mode = "names"
    /\ n_parsed' = Some(from_short_name(n_name))
    /\ UNCHANGED <<mode, notName, n_type, n_name, n_shown, n_reparsed, n_reshown>>

\* a call of from_short_name on the name short_name returned
FromShortNameOfShown ==
    /\ mode = "names" /\ n_shown.some
    /\ n_reparsed' = Some(from_short_name(n_shown.value))
    /\ UNCHANGED <<mode, notName, n_type, n_name, n_shown, n_parsed, n_reshown>>

\* a call of short_name on the type from_short_name returned
ShortNameOfParsed ==
    /\ mode = "names" /\ n_parsed.some /\ n_parsed.value.some
    /\ n_reshown' = Some(short_name(n_parsed.value.value))
    /\ UNCHANGED <<mode, notName, n_type, n_name, n_shown, n_parsed, n_reparsed>>

NextNames ==
    \/ ShortName
    \/ FromShortName
    \/ FromShortNameOfShown
    \/ ShortNameOfParsed

SpecNames == InitNames /\ [][NextNames]_vars

\* C16: short names round-trip.  For every variant v,
\* from_short_name(short_name(v)) = Some(v); and for every string s, when
\* from_short_name(s) = Some(v), short_name(v) = s.
C16_ShortNamesRoundTrip ==
    mode = "names" =>
        /\ n_reparsed.some => n_reparsed.value = Some(n_type)
        /\ n_reshown.some => n_reshown.value = n_name
        /\ n_parsed.some =>
               (n_parsed.value.some <=> \E t \in PackageType : short_name(t) = n_name)

\* C16 witness: MacOsBundle was formatted as "app" and parsed back to
\* MacOsBundle, and the string "dmg" was parsed to Dmg and formatted back to
\* "dmg".
C16_Witness ==
    /\ mode = "names"
    /\ n_type = "MacOsBundle" /\ n_shown = Some("app")
    /\ n_reparsed = Some(Some("MacOsBundle"))
    /\ n_name = "dmg" /\ n_parsed = Some(Some("Dmg")) /\ n_reshown = Some("dmg")

----------------------------------------------------------------------------
(* common::copy_dir (common.rs:86-123)                                     *)

\* A path is the sequence of its components, counted from the root of the
\* filesystem; the filesystem maps every path that has a node to its node.
Dir == [kind |-> "dir"]
File(bytes) == [kind |-> "file", bytes |-> bytes]
\* a symlink stores its target as it was given: relative or absolute
Symlink(absolute, path) ==
    [kind |-> "symlink", target |-> [absolute |-> absolute, path |-> path]]

\* the arguments of copy_dir, as in tests::copy_dir_with_symlinks
from_path == <<"orig">>
to_path == <<"parent", "copy">>

\* the entries a source tree is made of, each at its path relative to the root
\* of the tree: a directory, a file in it, a file at the top, and a symlink
\* whose stored target is relative, relative and dangling, or absolute
SourceEntries ==
    {<<<<"sub">>, Dir>>,
     <<<<"sub", "file.txt">>, File("Hello, world!\n")>>,
     <<<<"notes.txt">>, File("notes")>>,
     <<<<"link">>, Symlink(FALSE, <<"sub", "file.txt">>)>>,
     <<<<"link">>, Symlink(FALSE, <<"nowhere">>)>>,
     <<<<"link">>, Symlink(TRUE, <<"orig", "sub">>)>>}

\* Path::parent
parent(p) == SubSeq(p, 1, Len(p) - 1)

\* Path::join
join(p, rel) == p \o rel

\* Path::starts_with
path_starts_with(p, base) == Len(base) <= Len(p) /\ SubSeq(p, 1, Len(base)) = base

\* Path::strip_prefix, for a path that starts with base
strip_prefix(p, base) == SubSeq(p, Len(base) + 1, Len(p))

\* the source trees: sets of entries with one node per path, every entry in a
\* directory of the tree
SourceTrees ==
    {T \in SUBSET SourceEntries :
        /\ Cardinality(T) <= MaxEntries
        /\ \A e1, e2 \in T : e1[1] = e2[1] => e1 = e2
        /\ \A e \in T : Len(e[1]) > 1 => <<parent(e[1]), Dir>> \in T}

\* what is at `from` when copy_dir is called: nothing, a regular file, a
\* dangling symlink, or a directory that holds a source tree
FromSides ==
    {{}, {<<from_path, File("plain")>>}, {<<from_path, Symlink(FALSE, <<"nowhere">>)>>}}
    \cup {{<<from_path, Dir>>} \cup {<<join(from_path, e[1]), e[2]>> : e \in T}
          : T \in SourceTrees}

\* what is at `to` when copy_dir is called: no parent directory; a parent
\* directory and nothing at `to`; a directory at `to`, empty or not; a file;
\* a dangling symlink; a symlink to a directory
ToSides ==
    {{},
     {<<parent(to_path), Dir>>},
     {<<parent(to_path), Dir>>, <<to_path, Dir>>},
     {<<parent(to_path), Dir>>, <<to_path, Dir>>, <<join(to_path, <<"old.txt">>), File("old")>>},
     {<<parent(to_path), Dir>>, <<to_path, File("old")>>},
     {<<parent(to_path), Dir>>, <<to_path, Symlink(FALSE, <<"nowhere">>)>>},
     {<<parent(to_path), Dir>>, <<to_path, Symlink(FALSE, <<"other">>)>>,
      <<join(parent(to_path), <<"other">>), Dir>>}}

\* the filesystem that holds the nodes of E and the root directory
Filesystem(E) ==
    [p \in {e[1] : e \in E} \cup {<<>>} |->
        IF p = <<>> THEN Dir ELSE (CHOOSE e \in E : e[1] = p)[2]]

\* fs::symlink_metadata(p).is_ok(): there is a node at p
has_node(f, p) == p \in DOMAIN f

\* the path a symlink at p leads to
link_target(f, p) ==
    IF f[p].target.absolute THEN f[p].target.path
    ELSE join(parent(p), f[p].target.path)

RECURSIVE follow(_, _, _)
\* the path reached from p by following symlinks, at most n of them: a path
\* with no node, or with a node that is not a symlink, unless the links go on
follow(f, p, n) ==
    IF n = 0 \/ ~has_node(f, p) THEN p
    ELSE IF f[p].kind # "symlink" THEN p
    ELSE follow(f, link_target(f, p), n - 1)

\* the path that p names for the system, every symlink followed
resolved(f, p) == follow(f, p, Cardinality(DOMAIN f))

\* fs::metadata(p): the path of the node that p names once the symlinks are
\* followed, if there is one
metadata(f, p) ==
    IF has_node(f, resolved(f, p)) /\ f[resolved(f, p)].kind # "symlink"
    THEN Some(resolved(f, p)) ELSE None

\* Path::exists
exists(f, p) == metadata(f, p).some

\* Path::is_dir
is_dir(f, p) == metadata(f, p).some /\ f[metadata(f, p).value].kind = "dir"

\* Error::Generic(format!("{path:?} <what>"))
ErrGeneric(path, what) ==
    [kind |-> "Err", error |-> "Generic", message |-> <<path, what>>]

\* the checks of copy_dir without the test that `from` is a directory
precheck_without_is_dir(f, from, to) ==
    IF ~exists(f, from) THEN Some(ErrGeneric(from, " does not exist"))
    ELSE IF exists(f, to) THEN Some(ErrGeneric(to, " already exists"))
    ELSE None

\* common.rs:87-101  the three checks copy_dir starts with: the error it
\* returns, if any
precheck(f, from, to) ==
    IF ~exists(f, from) THEN Some(ErrGeneric(from, " does not exist"))
    ELSE IF ~is_dir(f, from) THEN Some(ErrGeneric(from, " is not a Directory"))
    ELSE IF exists(f, to) THEN Some(ErrGeneric(to, " already exists"))
    ELSE None

RECURSIVE create_dir_all(_, _)
\* fs::create_dir_all(p): creates p and the ancestors of p that are missing
create_dir_all(f, p) ==
    IF is_dir(f, p) THEN Ok(f)
    ELSE IF has_node(f, p) THEN ErrIo("create_dir_all")
    ELSE LET up == create_dir_all(f, parent(p))
         IN IF up.kind = "Ok" THEN Ok((p :> Dir) @@ up.value) ELSE up

\* fs::create_dir(p)
create_dir(f, p) ==
    IF has_node(f, p) \/ ~is_dir(f, parent(p)) THEN ErrIo("create_dir")
    ELSE Ok((p :> Dir) @@ f)

\* std::os::unix::fs::symlink(target, p): a symlink at p that stores target
symlink(f, target, p) ==
    IF has_node(f, p) \/ ~is_dir(f, parent(p)) THEN ErrIo("symlink")
    ELSE Ok((p :> [kind |-> "symlink", target |-> target]) @@ f)

\* fs::copy(src, dst): the file that dst names, through a symlink at dst if
\* there is one, is opened for writing and truncated, then gets the bytes of
\* the file that src names; when both name the same file it ends up empty
copy(f, src, dst) ==
    LET s == metadata(f, src)
        at == resolved(f, dst)
    IN IF ~s.some THEN ErrIo("copy")
       ELSE IF f[s.value].kind # "file" THEN ErrIo("copy")
       ELSE IF ~is_dir(f, parent(at)) THEN ErrIo("copy")
       ELSE IF has_node(f, at) /\ f[at].kind # "file" THEN ErrIo("copy")
       ELSE Ok((at :> File(IF at = s.value THEN "" ELSE f[s.value].bytes)) @@ f)

\* the body of the loop of copy_dir with a symlink made to the resolved target
\* of the original: the absolute path the original leads to
copy_entry_resolved_links(f, src, from, to) ==
    LET rel_path == strip_prefix(src, from)
        dest_path == join(to, rel_path)
    IN IF f[src].kind = "symlink"
       THEN symlink(f, [absolute |-> TRUE, path |-> link_target(f, src)], dest_path)
       ELSE IF f[src].kind = "dir" THEN create_dir(f, dest_path)
       ELSE copy(f, src, dest_path)

\* common.rs:107-120  the body of the loop of copy_dir for the entry at src
copy_entry(f, src, from, to) ==
    LET rel_path == strip_prefix(src, from)
        dest_path == join(to, rel_path)
    IN IF f[src].kind = "symlink" THEN symlink(f, f[src].target, dest_path)
       ELSE IF f[src].kind = "dir" THEN create_dir(f, dest_path)
       ELSE copy(f, src, dest_path)

\* the entries of the directory at d
read_dir(f, d) == {p \in DOMAIN f : Len(p) = Len(d) + 1 /\ parent(p) = d}

\* the orders in which a directory may list the entries S
Listings(S) ==
    {q \in [1..Cardinality(S) -> S] : \A i, j \in 1..Cardinality(S) : q[i] = q[j] => i = j}

InitFs ==
    /\ mode = "fs"
    /\ \E a \in FromSides, b \in ToSides : fs = Filesystem(a \cup b)
    /\ fs0 = fs
    /\ c_pc = "check" /\ todo = <<>> /\ c_result = NoResult
    /\ IdleOutput /\ IdleOrder /\ IdleSettings /\ IdleUpdater
    /\ IdleRun /\ IdleBuild
    /\ IdleNames /\ IdleArchive /\ IdleConfig

\* common.rs:87-101
Check ==
    /\ mode = "fs" /\ c_pc = "check"
    /\ IF precheck(fs, from_path, to_path).some
       THEN c_pc' = "done" /\ c_result' = precheck(fs, from_path, to_path).value
       ELSE c_pc' = "parent" /\ c_result' = c_result
    /\ UNCHANGED <<mode, notFs, fs, fs0, todo>>

\* common.rs:102-104  fs::create_dir_all(parent)?; WalkDir::new(from) yields
\* its root first
CreateParent ==
    /\ mode = "fs" /\ c_pc = "parent"
    /\ LET made == create_dir_all(fs, parent(to_path))
       IN IF made.kind = "Ok"
          THEN fs' = made.value /\ c_pc' = "walk" /\ todo' = <<from_path>>
                   /\ c_result' = c_result
          ELSE fs' = fs /\ c_pc' = "done" /\ todo' = todo /\ c_result' = made
    /\ UNCHANGED <<mode, notFs, fs0>>

\* common.rs:103  create_dir_all fails for a reason of the system (permission
\* denied, no space left)
CreateParentFails ==
    /\ mode = "fs" /\ c_pc = "parent"
    /\ c_pc' = "done" /\ c_result' = ErrIo("create_dir_all")
    /\ UNCHANGED <<mode, notFs, fs, fs0, todo>>

\* common.rs:104-121  one turn of the loop: the next entry is copied, and the
\* entries of a directory follow it at once, in the order the directory lists
\* them; a symlink is not followed
WalkEntry ==
    /\ mode = "fs" /\ c_pc = "walk" /\ todo # <<>>
    /\ LET src == Head(todo)
           done == copy_entry(fs, src, from_path, to_path)
       IN IF done.kind = "Ok"
          THEN /\ fs' = done.value
               /\ \E listing \in Listings(IF fs[src].kind = "dir"
                                          THEN read_dir(fs, src) ELSE {}) :
                      todo' = listing \o Tail(todo)
               /\ c_pc' = c_pc /\ c_result' = c_result
          ELSE fs' = fs /\ todo' = todo /\ c_pc' = "done" /\ c_result' = done
    /\ UNCHANGED <<mode, notFs, fs0>>

\* common.rs:105-119  the walk or the copy of an entry fails for a reason of
\* the system: what was copied so far stays
WalkEntryFails ==
    /\ mode = "fs" /\ c_pc = "walk" /\ todo # <<>>
    /\ c_pc' = "done" /\ c_result' = ErrIo("copy_dir")
    /\ UNCHANGED <<mode, notFs, fs, fs0, todo>>

\* common.rs:122  Ok(())
WalkDone ==
    /\ mode = "fs" /\ c_pc = "walk" /\ todo = <<>>
    /\ c_pc' = "done" /\ c_result' = Ok(<<>>)
    /\ UNCHANGED <<mode, notFs, fs, fs0, todo>>

NextFs ==
    \/ Check
    \/ CreateParent
    \/ CreateParentFails
    \/ WalkEntry
    \/ WalkEntryFails
    \/ WalkDone

SpecFs == InitFs /\ [][NextFs]_vars

\* `from` did not name a directory, or there was a node at `to`, when copy_dir
\* was called
MustFail ==
    \/ ~exists(fs0, from_path)
    \/ ~is_dir(fs0, from_path)
    \/ has_node(fs0, to_path)

\* C19: when `from` does not exist, when `from` is not a directory, or when
\* `to` already exists, copy_dir returns an error and the filesystem is at
\* every moment what it was when copy_dir was called: nothing is created, and
\* nothing is merged into an existing destination.
C19_FailsWithoutChange ==
    (mode = "fs" /\ MustFail) =>
        /\ fs = fs0
        /\ c_pc = "done" => c_result.kind = "Err"

\* C19 witness: copy_dir returned "already exists" for a directory `from` with
\* entries and a directory `to` that holds a file of its own, which is still
\* all that `to` holds.
C19_Witness ==
    /\ mode = "fs" /\ c_pc = "done"
    /\ c_result = ErrGeneric(to_path, " already exists")
    /\ read_dir(fs0, from_path) # {}
    /\ read_dir(fs, to_path) = {join(to_path, <<"old.txt">>)}

\* the paths of the tree under `from` when copy_dir was called, `from` included
SourcePaths == {p \in DOMAIN fs0 : path_starts_with(p, from_path)}

\* C20: after a successful copy_dir, every entry of the tree under `from` at
\* the relative path p has at `to`/p a node of the same kind: a directory for
\* a directory, a file with the same bytes for a file, a symlink with the same
\* stored target for a symlink; and `to` holds no other entry.
C20_TreeReproduced ==
    (mode = "fs" /\ c_pc = "done" /\ c_result.kind = "Ok") =>
        /\ \A p \in SourcePaths :
               LET dest == join(to_path, strip_prefix(p, from_path))
               IN has_node(fs, dest) /\ fs[dest] = fs0[p]
        /\ \A q \in DOMAIN fs :
               path_starts_with(q, to_path) =>
                   \E p \in SourcePaths : q = join(to_path, strip_prefix(p, from_path))

\* C20 witness: the tree of tests::copy_dir_with_symlinks was copied: `to`/link
\* is a symlink that stores the relative target sub/file.txt, and read through
\* the link it gives the bytes of `to`/sub/file.txt.
C20_Witness ==
    /\ mode = "fs" /\ c_pc = "done" /\ c_result.kind = "Ok"
    /\ has_node(fs, join(to_path, <<"link">>))
    /\ fs[join(to_path, <<"link">>)] = Symlink(FALSE, <<"sub", "file.txt">>)
    /\ metadata(fs, join(to_path, <<"link">>)) = Some(join(to_path, <<"sub", "file.txt">>))
    /\ fs[join(to_path, <<"sub", "file.txt">>)] = File("Hello, world!\n")

----------------------------------------------------------------------------
(* common::copy_file (common.rs:62-79)                                     *)

\* Path::is_file
is_file(f, p) == metadata(f, p).some /\ f[metadata(f, p).value].kind = "file"

\* what is at `from` when copy_file is called: what FromSides gives, or a
\* symlink to a regular file
FileFromSides ==
    FromSides
    \cup {{<<from_path, Symlink(FALSE, <<"real.bin">>)>>, <<<<"real.bin">>, File("real")>>}}

\* what is at `to` when copy_file is called: what ToSides gives, or a symlink
\* that leads to `from`
FileToSides ==
    ToSides \cup {{<<parent(to_path), Dir>>, <<to_path, Symlink(TRUE, from_path)>>}}

\* the checks of copy_file without the test that `from` is a regular file
copy_file_check_without_is_file(f, from) ==
    IF ~exists(f, from) THEN Some(ErrGeneric(from, " does not exist"))
    ELSE None

\* common.rs:65-74  the two checks copy_file starts with: the error it
\* returns, if any
copy_file_check(f, from) ==
    IF ~exists(f, from) THEN Some(ErrGeneric(from, " does not exist"))
    ELSE IF ~is_file(f, from) THEN Some(ErrGeneric(from, " is not a file"))
    ELSE None

InitCopyFile ==
    /\ mode = "copy_file"
    /\ \E a \in FileFromSides, b \in FileToSides : fs = Filesystem(a \cup b)
    /\ fs0 = fs
    /\ c_pc = "check" /\ todo = <<>> /\ c_result = NoResult
    /\ IdleOutput /\ IdleOrder /\ IdleSettings /\ IdleUpdater
    /\ IdleRun /\ IdleBuild
    /\ IdleNames /\ IdleArchive /\ IdleConfig

\* common.rs:65-74
FileCheck ==
    /\ mode = "copy_file" /\ c_pc = "check"
    /\ IF copy_file_check(fs, from_path).some
       THEN c_pc' = "done" /\ c_result' = copy_file_check(fs, from_path).value
       ELSE c_pc' = "parent" /\ c_result' = c_result
    /\ UNCHANGED <<mode, notFs, fs, fs0, todo>>

\* common.rs:75-76  fs::create_dir_all(dest_dir)?
FileCreateParent ==
    /\ mode = "copy_file" /\ c_pc = "parent"
    /\ LET made == create_dir_all(fs, parent(to_path))
       IN IF made.kind = "Ok"
          THEN fs' = made.value /\ c_pc' = "copy" /\ c_result' = c_result
          ELSE fs' = fs /\ c_pc' = "done" /\ c_result' = made
    /\ UNCHANGED <<mode, notFs, fs0, todo>>

\* common.rs:76  create_dir_all fails for a reason of the system
FileCreateParentFails ==
    /\ mode = "copy_file" /\ c_pc = "parent"
    /\ c_pc' = "done" /\ c_result' = ErrIo("create_dir_all")
    /\ UNCHANGED <<mode, notFs, fs, fs0, todo>>

\* common.rs:77-78  fs::copy(from, to)?; Ok(())
FileCopy ==
    /\ mode = "copy_file" /\ c_pc = "copy"
    /\ LET copied == copy(fs, from_path, to_path)
       IN IF copied.kind = "Ok"
          THEN fs' = copied.value /\ c_result' = Ok(<<>>)
          ELSE fs' = fs /\ c_result' = copied
    /\ c_pc' = "done"
    /\ UNCHANGED <<mode, notFs, fs0, todo>>

\* common.rs:77  fs::copy fails for a reason of the system before it wrote
FileCopyFails ==
    /\ mode = "copy_file" /\ c_pc = "copy"
    /\ c_pc' = "done" /\ c_result' = ErrIo("copy")
    /\ UNCHANGED <<mode, notFs, fs, fs0, todo>>

NextCopyFile ==
    \/ FileCheck
    \/ FileCreateParent
    \/ FileCreateParentFails
    \/ FileCopy
    \/ FileCopyFails

SpecCopyFile == InitCopyFile /\ [][NextCopyFile]_vars

\* the bytes read through the path p
bytes_at(f, p) == f[metadata(f, p).value].bytes

\* `from` and `to` named two different files when copy_file was called
TwoFiles ==
    \/ ~has_node(fs0, to_path)
    \/ resolved(fs0, to_path) # resolved(fs0, from_path)

\* C21: copy_file fails and leaves the filesystem as it was when `from` does
\* not exist or is not a regular file.  Otherwise, unless `to` is a directory
\* or the system refuses, it succeeds, and after a success the parent
\* directories of `to` exist and `to` is a regular file with the bytes of
\* `from`: the bytes `from` had before, when the two are different files, also
\* when `to` held other bytes before.
C21_CopyFile ==
    mode = "copy_file" =>
        /\ (~exists(fs0, from_path) \/ ~is_file(fs0, from_path)) =>
               /\ fs = fs0
               /\ c_pc = "done" => c_result.kind = "Err"
        /\ (c_pc = "copy" /\ ~is_dir(fs0, to_path)) =>
               copy(fs, from_path, to_path).kind = "Ok"
        /\ (c_pc = "done" /\ c_result.kind = "Ok") =>
               /\ is_dir(fs, parent(to_path))
               /\ is_file(fs, to_path)
               /\ bytes_at(fs, to_path) = bytes_at(fs, from_path)
               /\ TwoFiles => bytes_at(fs, to_path) = bytes_at(fs0, from_path)

\* C21 witness: `to` was a file with other bytes and is, after a successful
\* copy_file, a file with the bytes of `from`.
C21_Witness ==
    /\ mode = "copy_file" /\ c_pc = "done" /\ c_result.kind = "Ok"
    /\ has_node(fs0, to_path) /\ fs0[to_path] = File("old")
    /\ fs[to_path] = File("plain")
    /\ fs[from_path] = File("plain")

----------------------------------------------------------------------------
(* create_tar (cli/src/bundler/bundle/updater_bundle.rs:131-198)           *)

\* the compile targets that have a create_tar_from_src
TarHosts == {"macos", "linux"}

\* the directory the source lies in
bundle_dir == <<"bundle">>

\* create_tar(src_dir, dest_path): the source and the archive next to it
src_dir == join(bundle_dir, from_path)
archived_path == join(bundle_dir, <<"orig.tar.gz">>)

\* the entries E moved below the directory base, absolute symlinks with them
under(base, E) ==
    {<<base, Dir>>}
    \cup {<<join(base, e[1]),
            IF e[2].kind = "symlink"
            THEN IF e[2].target.absolute
                 THEN Symlink(TRUE, join(base, e[2].target.path)) ELSE e[2]
            ELSE e[2]>> : e \in E}

\* what is at dest_path when create_tar is called: nothing, or an older archive
ArchiveSides == {{}, {<<archived_path, File("old")>>}}

\* Path::file_name
file_name(p) == p[Len(p)]

\* one entry of an archive: the path in its header and what is stored under it
\* (a directory, a regular file with its bytes, a symlink with its link name)
Entry(path, node) == [path |-> path, node |-> node]

\* flate2::write::GzEncoder over tar::Builder: what the finished stream holds,
\* and what a reader gets back from it
gz_encode(entries) == [gzip |-> [tar |-> entries]]
gz_decode(bytes) == bytes.gzip.tar

\* File::create(p): the file that p names is created or truncated
create(f, p) ==
    LET at == resolved(f, p)
    IN IF ~is_dir(f, parent(at)) THEN ErrIo("create")
       ELSE IF has_node(f, at) /\ f[at].kind # "file" THEN ErrIo("create")
       ELSE Ok((at :> File(<<>>)) @@ f)

\* common.rs:25-31
create_file(f, p) ==
    LET made == create_dir_all(f, parent(p))
    IN IF made.kind = "Ok" THEN create(made.value, p) ELSE made

\* append_file that writes the header of a file and none of its data
append_file_header_only(f, path, src) ==
    LET m == metadata(f, src)
    IN IF ~m.some THEN {ErrIo("open")}
       ELSE IF f[m.value].kind = "file" THEN {Ok(<<Entry(path, File(<<>>))>>)}
       ELSE {ErrIo("read"), Ok(<<Entry(path, Dir)>>)}

\* tar::Builder::append_file(path, &mut File::open(src)?): the file is opened
\* through every symlink and the header is made from the metadata of the open
\* file; the data of an open directory cannot be read, and the entry is either
\* refused or stored as a directory
append_file(f, path, src) ==
    LET m == metadata(f, src)
    IN IF ~m.some THEN {ErrIo("open")}
       ELSE IF f[m.value].kind = "file"
       THEN {Ok(<<Entry(path, File(f[m.value].bytes))>>)}
       ELSE {ErrIo("read"), Ok(<<Entry(path, Dir)>>)}

\* the Linux loop with the path of an entry taken relative to src_dir itself
tar_entry_linux_flat(f, src, dir) ==
    LET dest_path == strip_prefix(src, dir)
    IN IF src = dir THEN {Ok(<<>>)}
       ELSE IF f[src].kind = "dir" THEN {Ok(<<Entry(dest_path, Dir)>>)}
       ELSE append_file(f, dest_path, src)

\* updater_bundle.rs:176-194  one turn of the Linux loop, for the entry at src
tar_entry_linux(f, src, dir) ==
    LET dest_path == strip_prefix(src, parent(dir))
    IN IF src = dir THEN {Ok(<<>>)}
       ELSE IF f[src].kind = "dir" THEN {Ok(<<Entry(dest_path, Dir)>>)}
       ELSE append_file(f, dest_path, src)

\* updater_bundle.rs:152-153  tar::Builder::append_dir_all(file_name, src_dir)
\* with follow_symlinks(false), for the entry at src: the root is read as a
\* directory, a symlink is stored with the link name it holds
tar_entry_macos(f, src, dir) ==
    LET dest == join(<<file_name(dir)>>, strip_prefix(src, dir))
    IN IF src = dir
       THEN IF is_dir(f, src) THEN {Ok(<<Entry(dest, Dir)>>)}
            ELSE {ErrIo("read_dir")}
       ELSE IF f[src].kind = "dir" THEN {Ok(<<Entry(dest, Dir)>>)}
       ELSE IF f[src].kind = "symlink" THEN {Ok(<<Entry(dest, f[src])>>)}
       ELSE {Ok(<<Entry(dest, File(f[src].bytes))>>)}

\* updater_bundle.rs:145-198  create_tar_from_src as the cfg attributes leave it
tar_entry(host, f, src, dir) ==
    IF host = "macos" THEN tar_entry_macos(f, src, dir)
    ELSE tar_entry_linux(f, src, dir)

InitTar ==
    /\ mode = "create_tar"
    /\ a_host \in TarHosts /\ a_mode = 0 /\ archive = <<>>
    /\ \E a \in FileFromSides, b \in ArchiveSides :
          fs = Filesystem(under(bundle_dir, a) \cup b)
    /\ fs0 = fs
    /\ c_pc = "create" /\ todo = <<>> /\ c_result = NoResult
    /\ IdleOutput /\ IdleOrder /\ IdleSettings /\ IdleUpdater
    /\ IdleRun /\ IdleBuild /\ IdleNames /\ IdleConfig

\* updater_bundle.rs:135-136
TarCreate ==
    /\ mode = "create_tar" /\ c_pc = "create"
    /\ LET made == create_file(fs, archived_path)
       IN IF made.kind = "Ok"
          THEN fs' = made.value /\ c_pc' = "src" /\ todo' = <<src_dir>>
                   /\ c_result' = c_result
          ELSE fs' = fs /\ c_pc' = "done" /\ todo' = todo /\ c_result' = made
    /\ UNCHANGED <<mode, notTar, fs0, arVars>>

\* updater_bundle.rs:135  create_file fails for a reason of the system
TarCreateFails ==
    /\ mode = "create_tar" /\ c_pc = "create"
    /\ c_pc' = "done" /\ c_result' = ErrIo("create_file")
    /\ UNCHANGED <<mode, notTar, fs, fs0, todo, arVars>>

\* updater_bundle.rs:166  fs::metadata(src_dir).expect(..)
TarNoSource ==
    /\ mode = "create_tar" /\ c_pc = "src" /\ a_host = "linux"
    /\ ~exists(fs, src_dir)
    /\ c_pc' = "done" /\ c_result' = Panic("Can't read source directory")
    /\ UNCHANGED <<mode, notTar, fs, fs0, todo, arVars>>

\* updater_bundle.rs:168-175  the source is a file
TarFile ==
    /\ mode = "create_tar" /\ c_pc = "src" /\ a_host = "linux" /\ todo # <<>>
    /\ is_file(fs, src_dir)
    /\ \E done \in append_file(fs, <<file_name(src_dir)>>, src_dir) :
          IF done.kind = "Ok"
          THEN archive' = archive \o done.value /\ todo' = <<>>
                   /\ c_pc' = c_pc /\ c_result' = c_result
          ELSE archive' = archive /\ todo' = todo
                   /\ c_pc' = "done" /\ c_result' = done
    /\ UNCHANGED <<mode, notTar, fs, fs0, a_host, a_mode>>

\* updater_bundle.rs:152-153, 176-194  one turn of the walk: the next entry is
\* appended, and the entries of a directory follow it, in the order the
\* directory lists them; the walk itself follows no symlink
TarEntry ==
    /\ mode = "create_tar" /\ c_pc = "src" /\ todo # <<>>
    /\ a_host = "linux" => is_dir(fs, src_dir)
    /\ LET src == Head(todo)
       IN \E done \in tar_entry(a_host, fs, src, src_dir) :
            IF done.kind = "Ok"
            THEN /\ archive' = archive \o done.value
                 /\ \E listing \in Listings(IF fs[src].kind = "dir"
                                            THEN read_dir(fs, src) ELSE {}) :
                        todo' = listing \o Tail(todo)
                 /\ c_pc' = c_pc /\ c_result' = c_result
            ELSE archive' = archive /\ todo' = todo
                     /\ c_pc' = "done" /\ c_result' = done
    /\ UNCHANGED <<mode, notTar, fs, fs0, a_host, a_mode>>

\* updater_bundle.rs:140-142, 154, 196  the stream is finished and flushed:
\* the file at dest_path holds the archive
TarFinish ==
    /\ mode = "create_tar" /\ c_pc = "src" /\ todo = <<>>
    /\ fs' = (resolved(fs, archived_path) :> File(gz_encode(archive))) @@ fs
    /\ c_pc' = "done" /\ c_result' = Ok(archived_path)
    /\ UNCHANGED <<mode, notTar, fs0, todo, arVars>>

NextTar ==
    \/ TarCreate \/ TarCreateFails \/ TarNoSource \/ TarFile \/ TarEntry
    \/ TarFinish

SpecTar == InitTar /\ [][NextTar]_vars

----------------------------------------------------------------------------
(* Claims about create_tar                                                 *)

\* what a reader finds in the archive at dest_path
unpacked(f) == gz_decode(bytes_at(f, archived_path))

\* the paths of the tree below src_dir when create_tar was called
TreePaths == {p \in DOMAIN fs0 : path_starts_with(p, src_dir) /\ p # src_dir}

\* the path in the archive of the entry for the path p of the tree
archive_path(p) == join(<<file_name(src_dir)>>, strip_prefix(p, src_dir))

C23_SymlinksStored ==
    mode = "create_tar" /\ is_dir(fs0, src_dir) =>
        /\ c_result.kind = "Ok" =>
              \A p \in TreePaths : fs0[p].kind = "symlink" =>
                  /\ \E i \in DOMAIN archive :
                        archive[i] = Entry(archive_path(p), fs0[p])
                  /\ \A i \in DOMAIN archive :
                        archive[i].path = archive_path(p) =>
                            archive[i].node.kind = "symlink"
        /\ \A i \in DOMAIN archive, p \in TreePaths :
              fs0[p].kind = "symlink" /\ archive[i].path = archive_path(p) =>
                  archive[i].node.kind = "symlink"

\* C24: create_tar on a source directory keeps the name of the top-level
\* folder: the path of every entry starts with the final component of src_dir
\* and goes on with the path of an entry of the tree relative to src_dir, and
\* every entry of the tree is stored under that path.
C24_TopLevelFolderKept ==
    mode = "create_tar" /\ is_dir(fs0, src_dir) =>
        /\ \A i \in DOMAIN archive :
              /\ Head(archive[i].path) = file_name(src_dir)
              /\ has_node(fs0, join(src_dir, Tail(archive[i].path)))
              /\ archive[i].path # <<file_name(src_dir)>> =>
                    archive[i].path
                        = archive_path(join(src_dir, Tail(archive[i].path)))
              /\ \A j \in DOMAIN archive :
                    archive[j].path = archive[i].path => i = j
        /\ c_result.kind = "Ok" =>
              /\ \A p \in TreePaths :
                    \E i \in DOMAIN archive : archive[i].path = archive_path(p)
              /\ unpacked(fs) = archive

\* C24 happens: a tree with a file in a sub-directory was archived
C24_Witness ==
    /\ mode = "create_tar" /\ c_result.kind = "Ok" /\ is_dir(fs0, src_dir)
    /\ \E i \in DOMAIN archive :
          archive[i].path = <<file_name(src_dir), "sub", "file.txt">>

----------------------------------------------------------------------------
(* create_zip (cli/src/bundler/bundle/updater_bundle.rs:107-129)           *)

\* create_zip is compiled for every host
ZipHosts == {"macos", "linux", "windows"}

\* the permission bits the source file may have: 0o644, 0o755, 0o600
SourceModes == {420, 493, 384}

\* create_zip(src_file, dst_file)
src_file == join(bundle_dir, from_path)
dst_file == <<"out", "orig.zip">>

\* what is at dst_file when create_zip is called: no parent directory, a
\* parent directory, an older archive, a file where the parent should be
ZipSides ==
    {{},
     {<<parent(dst_file), Dir>>},
     {<<parent(dst_file), Dir>>, <<dst_file, File("old")>>},
     {<<parent(dst_file), File("plain")>>}}

\* updater_bundle.rs:119  0o755
unix_permissions == 493

\* the options of an entry that take the permission bits of the source file
file_options_of_source ==
    [method |-> "Stored", unix_mode |-> a_mode]

\* updater_bundle.rs:117-119  FileOptions::default()
\*     .compression_method(Stored).unix_permissions(0o755)
file_options ==
    [method |-> "Stored", unix_mode |-> unix_permissions]

\* zip::ZipWriter::start_file(name, options) and the data written after it
ZipEntry(name, options, bytes) ==
    [path |-> <<name>>, method |-> options.method,
     unix_mode |-> options.unix_mode, bytes |-> bytes]

\* zip::ZipWriter over the file: what the finalised archive holds, and what a
\* reader gets back from it
zip_encode(entries) == [zip |-> entries]
zip_decode(bytes) == bytes.zip

\* File::open(p) and read_to_end: the bytes of the file that p names
read_to_end(f, p) ==
    IF ~exists(f, p) THEN ErrIo("open")
    ELSE IF ~is_file(f, p) THEN ErrIo("read")
    ELSE Ok(bytes_at(f, p))

InitZip ==
    /\ mode = "create_zip"
    /\ a_host \in ZipHosts /\ a_mode \in SourceModes /\ archive = <<>>
    /\ \E a \in FileFromSides, b \in ZipSides :
          fs = Filesystem(under(bundle_dir, a) \cup b)
    /\ fs0 = fs
    /\ c_pc = "create" /\ todo = <<>> /\ c_result = NoResult
    /\ IdleOutput /\ IdleOrder /\ IdleSettings /\ IdleUpdater
    /\ IdleRun /\ IdleBuild /\ IdleNames /\ IdleConfig

\* updater_bundle.rs:108-110
ZipCreate ==
    /\ mode = "create_zip" /\ c_pc = "create"
    /\ LET dirs == create_dir_all(fs, parent(dst_file))
           made == IF dirs.kind = "Ok" THEN create_file(dirs.value, dst_file)
                   ELSE dirs
       IN IF made.kind = "Ok"
          THEN fs' = made.value /\ c_pc' = "store" /\ c_result' = c_result
          ELSE /\ fs' = (IF dirs.kind = "Ok" THEN dirs.value ELSE fs)
               /\ c_pc' = "done" /\ c_result' = made
    /\ UNCHANGED <<mode, notTar, fs0, todo, arVars>>

\* updater_bundle.rs:109-110  the directory or the file cannot be made for a
\* reason of the system
ZipCreateFails ==
    /\ mode = "create_zip" /\ c_pc = "create"
    /\ c_pc' = "done" /\ c_result' = ErrIo("create_file")
    /\ UNCHANGED <<mode, notTar, fs, fs0, todo, arVars>>

\* updater_bundle.rs:112-126  the entry is started under the file name of
\* src_file and gets the bytes read from src_file; when the read fails the
\* function returns the error, and the ZipWriter, dropped, closes the archive
\* with the entry it has
ZipStore ==
    /\ mode = "create_zip" /\ c_pc = "store"
    /\ LET name == file_name(src_file)
           read == read_to_end(fs, src_file)
       IN IF read.kind = "Ok"
          THEN /\ archive' = <<ZipEntry(name, file_options, read.value)>>
               /\ fs' = fs /\ c_pc' = "return" /\ c_result' = c_result
          ELSE /\ archive' = <<ZipEntry(name, file_options, <<>>)>>
               /\ fs' = (resolved(fs, dst_file) :> File(zip_encode(archive')))
                            @@ fs
               /\ c_pc' = "done" /\ c_result' = read
    /\ UNCHANGED <<mode, notTar, fs0, todo, a_host, a_mode>>

\* updater_bundle.rs:128  Ok(dst_file.to_owned()): the ZipWriter goes out of
\* scope and, dropped, writes the central directory and closes the archive
ZipReturn ==
    /\ mode = "create_zip" /\ c_pc = "return"
    /\ fs' = (resolved(fs, dst_file) :> File(zip_encode(archive))) @@ fs
    /\ c_pc' = "done" /\ c_result' = Ok(dst_file)
    /\ UNCHANGED <<mode, notTar, fs0, todo, arVars>>

NextZip == ZipCreate \/ ZipCreateFails \/ ZipStore \/ ZipReturn

SpecZip == InitZip /\ [][NextZip]_vars

----------------------------------------------------------------------------
(* Claims about create_zip                                                 *)

\* C25: create_zip(src_file, dst_file) produces an archive with exactly one
\* entry, at the archive root under the base name of src_file, stored without
\* compression, with the permission bits 0o755 whatever the host and the
\* permission bits of src_file, and with the bytes of src_file.  With a
\* regular file for source it fails only where dst_file cannot be created.
C25_ZipOneStoredEntry ==
    mode = "create_zip" =>
        /\ c_result.kind = "Ok" =>
              /\ is_file(fs0, src_file)
              /\ is_file(fs, dst_file)
              /\ zip_decode(bytes_at(fs, dst_file))
                    = <<[path |-> <<file_name(src_file)>>,
                         method |-> "Stored",
                         unix_mode |-> 493,
                         bytes |-> bytes_at(fs0, src_file)]>>
              /\ bytes_at(fs, src_file) = bytes_at(fs0, src_file)
        /\ c_pc = "store" /\ is_file(fs0, src_file) =>
              read_to_end(fs, src_file).kind = "Ok"

\* C25 happens: a file whose permission bits are not 0o755 was archived on a
\* host that is not a unix
C25_Witness ==
    /\ mode = "create_zip" /\ c_result.kind = "Ok"
    /\ a_host = "windows" /\ a_mode # 493
    /\ Len(zip_decode(bytes_at(fs, dst_file))) = 1

----------------------------------------------------------------------------
(* Claims about the Updater and Settings::package_types together           *)

\* C29: the Updater agrees with the settings it is given: for every Settings
\* with no explicit list of package types whose package_types() holds Updater,
\* the package type that bundle_project, compiled for the same host, searches
\* for in the earlier bundles is one that package_types() returned, with a
\* priority below that of Updater.
C29_UpdaterAgreesWithSettings ==
    (/\ mode = "settings" /\ ~settings.package_types.some
     /\ pt_result.kind = "Ok"
     /\ \E i \in DOMAIN pt_result.value : pt_result.value[i] = "Updater"
     /\ archiver_cli(host_os) # "none") =>
        LET wanted == Wanted[archiver_cli(host_os)].package_type
        IN /\ \E i \in DOMAIN pt_result.value : pt_result.value[i] = wanted
           /\ priority(wanted) < priority("Updater")

----------------------------------------------------------------------------
(* Claims about the bundle command and the Updater together                *)

----------------------------------------------------------------------------
(* helpers::config::get and reload (clitemp/src/helpers/config.rs:63-167)  *)

\* get and reload are called at most MaxCalls times
MaxCalls == 3

\* tauri_utils::platform::Target: the targets of the model
ConfigTargets == {"Linux", "MacOS"}

\* the --config values of the model: none, or one that sets the identifier
MergeConfigs == {None, Some([identifier |-> "merged"])}

\* what the configuration files on disk may hold: tauri.conf.json cannot be
\* read or parsed, does not pass the schema, or is fine; it gives an
\* identifier; a platform file tauri.<target>.conf.json may set another
DiskStates ==
    [status : {"unreadable", "invalid", "ok"},
     identifier : {"a", "b"},
     platform : {None, Some([identifier |-> "platform"])}]

\* json_patch::merge(&mut config, patch) for the one key of the model
merge(config, patch) == [identifier |-> patch.identifier]

\* config.rs:79-99  the configuration get_internal builds: the file, merged
\* with the platform file and with merge_config, and the extensions it notes
merged_config(d, merge_config) ==
    LET base == [identifier |-> d.identifier]
        with_platform == IF d.platform.some THEN merge(base, d.platform.value)
                         ELSE base
    IN IF merge_config.some THEN merge(with_platform, merge_config.value)
       ELSE with_platform

extensions_of(d, merge_config) ==
    (IF d.platform.some THEN {"tauri.platform.conf.json"} ELSE {})
        \cup (IF merge_config.some THEN {"--config"} ELSE {})

\* struct ConfigMetadata (config.rs:20-28)
ConfigMetadata(target, inner, extensions) ==
    [target |-> target, inner |-> inner, extensions |-> extensions]

\* Err(anyhow::anyhow!("config not loaded"))
ErrNotLoaded ==
    [kind |-> "Err", error |-> "anyhow", message |-> <<"config not loaded">>]

\* the error of parse_value or of serde_json::from_value
ErrConfig(what) == [kind |-> "Err", error |-> "config", message |-> <<what>>]

\* an outcome of get_internal: what it returns, what the cache holds after
\* it, how many files it read, and whether it ended the process
Outcome(result, c, reads, exit) ==
    [result |-> result, cache |-> c, reads |-> reads, exit |-> exit]

\* Ok(config_handle().clone()): the handle of the one process-wide cell
OkHandle == Ok("CONFIG_HANDLE")

\* config.rs:78-146  get_internal from the first file read on
load(c, d, merge_config, reload, target) ==
    LET stored == Some(ConfigMetadata(target, merged_config(d, merge_config),
                                      extensions_of(d, merge_config)))
    IN IF d.status = "unreadable" THEN {Outcome(ErrConfig("parse"), c, 1, FALSE)}
       ELSE IF d.status = "invalid"
       THEN IF ~reload THEN {Outcome(NoResult, c, 2, TRUE)}
            ELSE {Outcome(ErrConfig("deserialize"), c, 2, FALSE),
                  Outcome(OkHandle, stored, 2, FALSE)}
       ELSE {Outcome(OkHandle, stored, 2, FALSE)}

\* get_internal without the early return on a loaded cache
get_internal_always_loads(c, d, merge_config, reload, target) ==
    load(c, d, merge_config, reload, target)

\* config.rs:69-147  get_internal
get_internal(c, d, merge_config, reload, target) ==
    IF ~reload /\ c.some THEN {Outcome(OkHandle, c, 0, FALSE)}
    ELSE load(c, d, merge_config, reload, target)

\* config.rs:149-154  get
get(c, d, target, merge_config) == get_internal(c, d, merge_config, FALSE, target)

\* config.rs:156-167  reload
reload_config(c, d, merge_config) ==
    IF c.some THEN get_internal(c, d, merge_config, TRUE, c.value.target)
    ELSE {Outcome(ErrNotLoaded, c, 0, FALSE)}

InitConfig ==
    /\ mode = "config"
    /\ cache = None /\ disk \in DiskStates /\ cfg_call = NoResult
    /\ first_load = None /\ cfg_calls = 0 /\ exited = FALSE
    /\ IdleOutput /\ IdleOrder /\ IdleSettings /\ IdleUpdater
    /\ IdleRun /\ IdleBuild /\ IdleNames /\ IdleFs /\ IdleArchive

\* a call is made, with outcome o: the cache, the histories and the record of
\* the call
CallMade(op, target, merge_config, o) ==
    /\ cache' = o.cache
    /\ exited' = o.exit
    /\ first_load' = IF ~first_load.some /\ o.result = OkHandle
                     THEN Some(o.cache.value.target) ELSE first_load
    /\ cfg_calls' = cfg_calls + 1
    /\ cfg_call' = [op |-> op, target |-> target, merge_config |-> merge_config,
                    before |-> cache, was_loaded |-> first_load.some,
                    result |-> o.result, reads |-> o.reads]

\* config.rs:149-154  a call of get(target, merge_config)
Get ==
    /\ mode = "config" /\ ~exited /\ cfg_calls < MaxCalls
    /\ \E target \in ConfigTargets, merge_config \in MergeConfigs :
          \E o \in get(cache, disk, target, merge_config) :
              CallMade("get", Some(target), merge_config, o)
    /\ UNCHANGED <<mode, notConfig, disk>>

\* config.rs:156-167  a call of reload(merge_config)
Reload ==
    /\ mode = "config" /\ ~exited /\ cfg_calls < MaxCalls
    /\ \E merge_config \in MergeConfigs :
          \E o \in reload_config(cache, disk, merge_config) :
              CallMade("reload", None, merge_config, o)
    /\ UNCHANGED <<mode, notConfig, disk>>

\* between two calls the user edits the configuration files
EditFiles ==
    /\ mode = "config" /\ ~exited /\ cfg_calls \in 1 .. (MaxCalls - 1)
    /\ disk' \in DiskStates \ {disk}
    /\ UNCHANGED <<mode, notConfig, cache, cfg_call, first_load, cfg_calls, exited>>

NextConfig == Get \/ Reload \/ EditFiles

SpecConfig == InitConfig /\ [][NextConfig]_vars

----------------------------------------------------------------------------
(* Claims about helpers::config                                            *)

\* C30: the process-wide configuration cache is a load-once cell under any
\* sequence of get and reload calls: reload fails with "config not loaded",
\* and leaves the cache empty, exactly when no load has succeeded before; a
\* get on a loaded cache returns the handle with the cached configuration
\* unchanged and reads no file, whatever its target and merge_config; every
\* reload that succeeds stores a configuration whose target is that of the
\* first load.  The cache is loaded exactly when a load has succeeded.
C30_LoadOnceCell ==
    mode = "config" =>
        /\ cache.some <=> first_load.some
        /\ cfg_call # NoResult =>
              /\ cfg_call.op = "reload" =>
                    /\ cfg_call.result = ErrNotLoaded <=> ~cfg_call.was_loaded
                    /\ ~cfg_call.was_loaded => cache = None
                    /\ cfg_call.result = OkHandle =>
                          /\ cache.some
                          /\ cache.value.target = first_load.value
                          /\ cache.value.target = cfg_call.before.value.target
              /\ cfg_call.op = "get" /\ cfg_call.before.some =>
                    /\ cfg_call.result = OkHandle
                    /\ cache = cfg_call.before
                    /\ cfg_call.reads = 0

\* C30 happens: after a load, a reload with another --config stored a new
\* configuration under the target of the first load
C30_Witness ==
    /\ mode = "config" /\ cfg_call # NoResult
    /\ cfg_call.op = "reload" /\ cfg_call.result = OkHandle
    /\ cache # cfg_call.before
    /\ cache.value.target = first_load.value

----------------------------------------------------------------------------
(* The whole model                                                         *)

Init ==
    \/ InitOutput \/ InitOrder \/ InitSettings \/ InitUpdater \/ InitRun
    \/ InitBuild \/ InitNames \/ InitFs \/ InitCopyFile \/ InitTar
    \/ InitZip \/ InitConfig

Next ==
    \/ NextOutput \/ NextOrder \/ NextSettings \/ NextUpdater \/ NextRun
    \/ NextBuild \/ NextNames \/ NextFs \/ NextCopyFile \/ NextTar
    \/ NextZip \/ NextConfig

Spec == Init /\ [][Next]_vars

====
